---------------------------- MODULE Spec2Model ----------------------------
(***************************************************************************)
(* State-machine model of the Symbiote learning backend: the points        *)
(* tracker, the history tracker, the orchestrator's agent selection and    *)
(* the HTTP route layer that wires them together.                          *)
(*                                                                         *)
(* Python floats are IEEE-754 doubles.  Every float the services compute   *)
(* (base_points * multiplier, current_points * 0.1, the progress and       *)
(* accuracy percentages) is modelled bit for bit: a double is a 53-bit     *)
(* significand and an exponent, and division and multiplication round to   *)
(* nearest, ties to even, as the hardware does.  Timestamps and free-form  *)
(* metadata of ledger and history entries carry no behaviour and are left  *)
(* out.                                                                    *)
(***************************************************************************)
EXTENDS Integers, Sequences, FiniteSets, TLC

VARIABLES
    current_points,      \* PointsService.current_points
    total_points,        \* PointsService.total_points
    points_history,      \* PointsService.points_history (the ledger)
    points_call,         \* the last PointsService call: its arguments, the
                         \* balances it found and the value it returned
    agents,              \* OrchestratorService.agents: AgentType -> agent
    conversation_count,  \* OrchestratorService.conversation_count
    last_agent_type,     \* OrchestratorService.last_agent_type
    orch_call,           \* the last process_user_input call and its outcome
    turn_log,            \* one entry per process_user_input call so far
    interaction_history, \* HistoryService.interaction_history
    topic_performance,   \* HistoryService.topic_performance, in key order
    weak_areas,          \* HistoryService.weak_areas
    strong_areas,        \* HistoryService.strong_areas
    history_call,        \* the last HistoryService call and its result
    clock,               \* datetime.now().timestamp(), in ticks
    issued,              \* the session ids the create-session responses gave
    route_call,          \* the last HTTP request and its response
    sessions,            \* SessionService.sessions: session id -> session
    creates_made,        \* create_session calls that returned a session
    deletions_made,      \* sessions deleted by delete_session and the sweep
    session_call,        \* the last SessionService call and its outcome
    agent_classes,       \* AgentRegistry._agent_classes: type -> class
    agent_factories,     \* AgentRegistry._agent_factories: type -> factory
    instances,           \* AgentRegistry._instances: instance id -> agent
    registry_call,       \* the last AgentRegistry call and its outcome
    tasks,               \* the process_user_input calls dispatched on one
                         \* event loop, in dispatch order
    the_agent,           \* one agent instance, exercised on its own
    agent_call           \* the last process_input call on it and its response

points_vars == <<current_points, total_points, points_history, points_call>>
orch_vars == <<agents, conversation_count, last_agent_type, orch_call, turn_log>>

history_vars ==
    <<interaction_history, topic_performance, weak_areas, strong_areas,
      history_call>>

vars ==
    <<points_vars, orch_vars, history_vars, clock, issued, route_call,
      sessions, creates_made, deletions_made, session_call,
      agent_classes, agent_factories, instances, registry_call,
      tasks, the_agent, agent_call>>

-----------------------------------------------------------------------------
(* Bounds of the model *)

\* Number of ledger entries after which no further PointsService call is made.
MaxLedger == 3

\* Number of process_user_input calls made on one orchestrator.
MaxTurns == 5

\* Number of interactions recorded by one HistoryService.
MaxInteractions == 4

\* Number of clock ticks that pass, and of create-session requests served.
MaxClock == 2
MaxSessions == 2
MaxTasks == 3
MaxAgentTurns == 11

-----------------------------------------------------------------------------
(* IEEE-754 double arithmetic on non-negative values.                      *)
(* A double is [m |-> bits, e |-> k]: its value is the binary number       *)
(* written by the 53 bits of m (most significant first, m[1] = 1) times    *)
(* 2^k; zero has the empty bit string.  Magnitudes here stay far from the  *)
(* subnormal and overflow ranges.                                          *)

RECURSIVE BitsOfNat(_)
BitsOfNat(n) == IF n = 0 THEN <<>> ELSE Append(BitsOfNat(n \div 2), n % 2)

RECURSIVE NatOfBits(_)
NatOfBits(b) ==
    IF b = <<>> THEN 0
    ELSE 2 * NatOfBits(SubSeq(b, 1, Len(b) - 1)) + b[Len(b)]

Zeros(k) == [i \in 1..k |-> 0]

AnyOne(b) == \E i \in 1..Len(b) : b[i] = 1

RECURSIVE IncBits(_)
IncBits(b) ==
    IF b = <<>> THEN <<1>>
    ELSE IF b[Len(b)] = 0 THEN [b EXCEPT ![Len(b)] = 1]
    ELSE Append(IncBits(SubSeq(b, 1, Len(b) - 1)), 0)

FloatZero == [m |-> <<>>, e |-> 0]

\* Round the exact value bits * 2^e (plus a non-zero tail below the last bit
\* when sticky) to the nearest double, ties to even.
RoundBits(bits, e, sticky) ==
    IF bits = <<>> THEN FloatZero
    ELSE IF Len(bits) <= 53
    THEN [m |-> bits \o Zeros(53 - Len(bits)), e |-> e - (53 - Len(bits))]
    ELSE LET keep  == SubSeq(bits, 1, 53)
             guard == bits[54]
             rest  == sticky \/ AnyOne(SubSeq(bits, 55, Len(bits)))
             up    == guard = 1 /\ (rest \/ keep[53] = 1)
             e1    == e + Len(bits) - 53
             inc   == IncBits(keep)
         IN  IF ~up THEN [m |-> keep, e |-> e1]
             ELSE IF Len(inc) = 54 THEN [m |-> SubSeq(inc, 1, 53), e |-> e1 + 1]
             ELSE [m |-> inc, e |-> e1]

\* Long division: quotient bits of rem/q below the bits already in acc, until
\* the quotient is exact or holds 55 significant bits.
RECURSIVE DivBits(_, _, _, _)
DivBits(rem, q, acc, e) ==
    IF rem = 0 \/ Len(acc) >= 55
    THEN [bits |-> acc, e |-> e, sticky |-> rem # 0]
    ELSE LET bit  == IF 2 * rem >= q THEN 1 ELSE 0
             acc2 == IF acc = <<>> /\ bit = 0 THEN <<>> ELSE Append(acc, bit)
         IN  DivBits(2 * rem - bit * q, q, acc2, e - 1)

\* The double p / q of two naturals (Python's int / int, and the value of a
\* decimal literal such as 1.3 = 13/10): the quotient correctly rounded.
FloatDiv(p, q) ==
    LET d == DivBits(p % q, q, BitsOfNat(p \div q), 0)
    IN  RoundBits(d.bits, d.e, d.sticky)

FloatOfNat(n) == RoundBits(BitsOfNat(n), 0, FALSE)

\* bits * n + carry as a bit string, from the least significant bit up.  The
\* carry is inspected first at every level, so that it is a number and not a
\* chain of pending computations by the time the top bits are written.
RECURSIVE MulBits(_, _, _)
MulBits(bits, n, carry) ==
    IF carry = 0 /\ bits = <<>> THEN <<>>
    ELSE IF bits = <<>> THEN BitsOfNat(carry)
    ELSE LET v == bits[Len(bits)] * n + carry
         IN  Append(MulBits(SubSeq(bits, 1, Len(bits) - 1), n, v \div 2), v % 2)

\* The double f * n for a natural n: the exact product correctly rounded.
FloatMulNat(f, n) ==
    IF n = 0 THEN FloatZero ELSE RoundBits(MulBits(f.m, n, 0), f.e, FALSE)

\* int(f) for f >= 0: the integer part.
FloatTrunc(f) ==
    IF f.m = <<>> THEN 0
    ELSE IF f.e >= 0 THEN NatOfBits(f.m \o Zeros(f.e))
    ELSE IF 0 - f.e >= 53 THEN 0
    ELSE NatOfBits(SubSeq(f.m, 1, 53 + f.e))

RECURSIVE BitsLess(_, _)
BitsLess(a, b) ==
    IF a = <<>> THEN FALSE
    ELSE IF Head(a) # Head(b) THEN Head(a) < Head(b)
    ELSE BitsLess(Tail(a), Tail(b))

\* f < g on doubles.
FloatLess(f, g) ==
    IF g.m = <<>> THEN FALSE
    ELSE IF f.m = <<>> THEN TRUE
    ELSE IF f.e # g.e THEN f.e < g.e
    ELSE BitsLess(f.m, g.m)

FloatMin(f, g) == IF FloatLess(g, f) THEN g ELSE f
FloatMax(f, g) == IF FloatLess(f, g) THEN g ELSE f

\* int(n * f) for an integer n and a double f >= 0.  IEEE multiplication is
\* symmetric in the sign and int() truncates toward zero.
IntOfProduct(n, f) ==
    IF n >= 0 THEN FloatTrunc(FloatMulNat(f, n))
    ELSE 0 - FloatTrunc(FloatMulNat(f, 0 - n))

-----------------------------------------------------------------------------
(* PointsService (src/services/points_service.py) *)

\* Inputs of the calls.  "other" stands for any action type that is not a key
\* of the multiplier table.
KnownActions ==
    {"curiosity", "critical_thinking", "collaboration", "teaching",
     "challenge_completion", "hint_penalty"}
ActionTypes == KnownActions \cup {"other"}
BasePoints == {-3, 0, 5, 90}
PenaltyAmounts == {-2, 4, 100}

\* self.multipliers: the float literals of the table.
multipliers ==
    [a \in KnownActions |->
        CASE a = "curiosity"            -> FloatDiv(3, 2)
          [] a = "critical_thinking"    -> FloatOfNat(2)
          [] a = "collaboration"        -> FloatDiv(13, 10)
          [] a = "teaching"             -> FloatDiv(5, 2)
          [] a = "challenge_completion" -> FloatOfNat(3)
          [] a = "hint_penalty"         -> FloatDiv(7, 10)]

\* self.multipliers.get(action_type, 1.0)
MultiplierOf(action_type) ==
    IF action_type \in KnownActions THEN multipliers[action_type]
    ELSE FloatOfNat(1)

\* A faulty variant: the hint_penalty entry of the table deducts.
PointsEarnedDeducting(action_type, base_points) ==
    IF action_type = "hint_penalty"
    THEN 0 - IntOfProduct(base_points, MultiplierOf(action_type))
    ELSE IntOfProduct(base_points, MultiplierOf(action_type))

\* The products of the inputs drawn below, computed once.
EarnedMemo ==
    [x \in ActionTypes \X BasePoints |-> IntOfProduct(x[2], MultiplierOf(x[1]))]
        @@ <<>>

\* int(base_points * multiplier)
PointsEarned(action_type, base_points) ==
    IF <<action_type, base_points>> \in DOMAIN EarnedMemo
    THEN EarnedMemo[<<action_type, base_points>>]
    ELSE IntOfProduct(base_points, MultiplierOf(action_type))

Min(a, b) == IF a <= b THEN a ELSE b
Max(a, b) == IF a >= b THEN a ELSE b

\* A faulty variant: the penalty is not clamped to the balance.
DeductedUnclamped(points_to_deduct, balance) == points_to_deduct

\* min(points_to_deduct, self.current_points)
Deducted(points_to_deduct, balance) == Min(points_to_deduct, balance)

\* The float literal 0.1.
HintRate == FloatDiv(1, 10)

\* A faulty variant: no minimum penalty of 1.
HintPenaltyNoMinimum(balance) == IntOfProduct(balance, HintRate)

\* max(1, int(self.current_points * 0.1))
HintPenalty(balance) == Max(1, IntOfProduct(balance, HintRate))

NoCall == [op |-> "none"]

PointsInit ==
    /\ current_points = 0
    /\ total_points = 0
    /\ points_history = <<>>
    /\ points_call = NoCall

award_points(action_type, base_points) ==
    /\ Len(points_history) < MaxLedger
    /\ LET multiplier    == MultiplierOf(action_type)
           points_earned == PointsEarned(action_type, base_points)
       IN  /\ current_points' = current_points + points_earned
           /\ total_points' = total_points + points_earned
           /\ points_history' = Append(points_history,
                  [action        |-> action_type,
                   base_points   |-> base_points,
                   multiplier    |-> multiplier,
                   points_earned |-> points_earned])
           /\ points_call' = [op          |-> "award_points",
                              action_type |-> action_type,
                              base_points |-> base_points,
                              pre_current |-> current_points,
                              pre_total   |-> total_points,
                              ret         |-> points_earned]

\* A faulty variant: the entry records the amount asked for, not the amount
\* deducted.
PenalizeRecordingRequest(reason, points_to_deduct, balance, ledger) ==
    LET deducted == Deducted(points_to_deduct, balance)
    IN  [current_points |-> balance - deducted,
         points_history |-> Append(ledger,
              [action          |-> "penalty",
               reason          |-> reason,
               points_deducted |-> points_to_deduct]),
         ret            |-> deducted]

\* The body of penalize_points: the new balance, the ledger and the value
\* returned.
Penalize(reason, points_to_deduct, balance, ledger) ==
    LET deducted == Deducted(points_to_deduct, balance)
    IN  [current_points |-> balance - deducted,
         points_history |-> Append(ledger,
              [action          |-> "penalty",
               reason          |-> reason,
               points_deducted |-> deducted]),
         ret            |-> deducted]

penalize_points(reason, points_to_deduct) ==
    /\ Len(points_history) < MaxLedger
    /\ LET r == Penalize(reason, points_to_deduct, current_points, points_history)
       IN  /\ current_points' = r.current_points
           /\ points_history' = r.points_history
           /\ points_call' = [op               |-> "penalize_points",
                              reason           |-> reason,
                              points_to_deduct |-> points_to_deduct,
                              pre_current      |-> current_points,
                              pre_total        |-> total_points,
                              ret              |-> r.ret]
    /\ UNCHANGED total_points

\* The value use_hint returns.
HintReturn(penalty, deducted) == penalty

use_hint ==
    /\ Len(points_history) < MaxLedger
    /\ LET penalty == HintPenalty(current_points)
           r == Penalize("hint_used", penalty, current_points, points_history)
       IN  /\ current_points' = r.current_points
           /\ points_history' = r.points_history
           /\ points_call' = [op          |-> "use_hint",
                              pre_current |-> current_points,
                              pre_total   |-> total_points,
                              ret         |-> HintReturn(penalty, r.ret)]
    /\ UNCHANGED total_points

reset ==
    /\ points_history # <<>>
    /\ current_points' = 0
    /\ total_points' = 0
    /\ points_history' = <<>>
    /\ points_call' = [op |-> "reset"]

\* (self.total_points // 100) + 1
LevelOf(total) == (total \div 100) + 1
get_current_level == LevelOf(total_points)

get_next_level_threshold == get_current_level * 100

\* The progress percentage, a double.  total_points - current_threshold lies
\* in 0..99 for every integer total_points, since // is the floor division.
ProgressOf(total) ==
    LET current_level     == LevelOf(total)
        current_threshold == (current_level - 1) * 100
        next_threshold    == current_level * 100
    IN  IF next_threshold = current_threshold THEN FloatZero
        ELSE LET progress ==
                     FloatMulNat(FloatDiv(total - current_threshold,
                                          next_threshold - current_threshold),
                                 100)
             IN  FloatMin(FloatOfNat(100), FloatMax(FloatZero, progress))
get_progress_percentage == ProgressOf(total_points)

\* PointsService.get_summary
PointsSummary(current, total) ==
    [current_points         |-> current,
     total_points           |-> total,
     level                  |-> LevelOf(total),
     next_level_points      |-> LevelOf(total) * 100,
     progress_to_next_level |-> ProgressOf(total)]

-----------------------------------------------------------------------------
(* Agents (src/agents/base_implementations.py, src/core/base_agent.py) *)

\* A string is the sequence of its characters.
TUTOR == "tutor"
PEER == "peer"
PROVOCATEUR == "provocateur"
TEACHABLE == "teachable"
AgentType == {TUTOR, PEER, PROVOCATEUR, TEACHABLE}

\* None
None == "None"

\* A freshly constructed agent of the given type.  The conversation history
\* keeps the role of each entry; the text is not modelled, and neither is the
\* uniform choice among the fixed texts of one kind.
NewAgent(agent_type) ==
    [agent_type           |-> agent_type,
     conversation_history |-> <<>>,
     questions_asked      |-> 0,      \* SocraticTutorAgent
     challenges_created   |-> 0,      \* ProvocateurAgent
     understanding_level  |-> 0]      \* TeachableAgent

\* A faulty variant: only the user's messages are kept.
add_to_history_user_only(agent, role) ==
    IF role = "user"
    THEN [agent EXCEPT !.conversation_history = Append(@, role)]
    ELSE agent

\* BaseAgent.add_to_history
add_to_history(agent, role) ==
    [agent EXCEPT !.conversation_history = Append(@, role)]

\* A faulty variant: the thresholds are inclusive.
evaluate_teaching_inclusive(user_input) ==
    IF Len(user_input) >= 100 THEN 10
    ELSE IF Len(user_input) >= 50 THEN 5
    ELSE 2

\* TeachableAgent._evaluate_teaching
evaluate_teaching(user_input) ==
    IF Len(user_input) > 100 THEN 10
    ELSE IF Len(user_input) > 50 THEN 5
    ELSE 2

\* A faulty variant: the middle tier starts at a gain of 5.
generate_learning_response_from_five(understanding_gain) ==
    IF understanding_gain > 8 THEN "wow"
    ELSE IF understanding_gain >= 5 THEN "thanks_for_explaining"
    ELSE "could_you_provide_more_details"

\* TeachableAgent._generate_learning_response
generate_learning_response(understanding_gain) ==
    IF understanding_gain > 8 THEN "wow"
    ELSE IF understanding_gain > 5 THEN "thanks_for_explaining"
    ELSE "could_you_provide_more_details"

\* process_input of the four agent classes: the agent afterwards and the
\* AgentResponse.  should_error is the outcome of the Peer's random draw
\* random.random() < error_injection_rate.
process_input(agent, user_input, should_error) ==
    LET a1 == add_to_history(agent, "user")
    IN  CASE agent.agent_type = TUTOR ->
               [agent    |-> [add_to_history(a1, "assistant")
                                EXCEPT !.questions_asked = @ + 1],
                response |-> [message        |-> "socratic_question",
                              agent_type     |-> TUTOR,
                              points_awarded |-> 5,
                              challenge      |-> None]]
          [] agent.agent_type = PEER ->
               [agent    |-> add_to_history(a1, "assistant"),
                response |-> [message        |-> IF should_error
                                                 THEN "peer_error"
                                                 ELSE "peer_agreement",
                              agent_type     |-> PEER,
                              points_awarded |-> IF should_error THEN 10 ELSE 5,
                              challenge      |-> None]]
          [] agent.agent_type = PROVOCATEUR ->
               [agent    |-> [add_to_history(a1, "assistant")
                                EXCEPT !.challenges_created = @ + 1],
                response |-> [message        |-> "challenge_prompt",
                              agent_type     |-> PROVOCATEUR,
                              points_awarded |-> 0,
                              challenge      |-> agent.challenges_created]]
          [] agent.agent_type = TEACHABLE ->
               LET understanding_gain == evaluate_teaching(user_input)
                   level == Min(100, agent.understanding_level + understanding_gain)
               IN  [agent    |-> [add_to_history(a1, "assistant")
                                    EXCEPT !.understanding_level = level],
                    response |-> [message        |->
                                      generate_learning_response(understanding_gain),
                                  agent_type     |-> TEACHABLE,
                                  points_awarded |-> 15 + understanding_gain,
                                  challenge      |-> None]]

-----------------------------------------------------------------------------
(* OrchestratorService (src/services/orchestrator_service.py) *)

UpperCase ==
    <<"A", "B", "C", "D", "E", "F", "G", "H", "I", "J", "K", "L", "M",
      "N", "O", "P", "Q", "R", "S", "T", "U", "V", "W", "X", "Y", "Z">>
LowerCase ==
    <<"a", "b", "c", "d", "e", "f", "g", "h", "i", "j", "k", "l", "m",
      "n", "o", "p", "q", "r", "s", "t", "u", "v", "w", "x", "y", "z">>

\* str.lower(), on ASCII text
lower(str) ==
    [i \in 1..Len(str) |->
        IF \E k \in 1..26 : UpperCase[k] = str[i]
        THEN LowerCase[CHOOSE k \in 1..26 : UpperCase[k] = str[i]]
        ELSE str[i]]

\* word in str: substring containment
Contains(str, word) ==
    \E i \in 1..(Len(str) - Len(word) + 1) :
        SubSeq(str, i, i + Len(word) - 1) = word

\* any(word in str for word in words)
AnyWordIn(words, str) == \E k \in 1..Len(words) : Contains(str, words[k])

\* A faulty variant: "explain" is not a Tutor trigger.
TutorWordsWithoutExplain == <<<<"w", "h", "y">>, <<"h", "o", "w">>>>

\* The three trigger lists of _decide_next_agent.
TutorWords ==
    <<<<"w", "h", "y">>, <<"h", "o", "w">>,
      <<"e", "x", "p", "l", "a", "i", "n">>>>
ProvocateurWords ==
    <<<<"c", "h", "a", "l", "l", "e", "n", "g", "e">>, <<"g", "a", "m", "e">>,
      <<"s", "c", "e", "n", "a", "r", "i", "o">>>>
TeachableWords ==
    <<<<"t", "e", "a", "c", "h">>,
      <<"e", "x", "p", "l", "a", "i", "n", " ", "t", "o">>,
      <<"h", "e", "l", "p", " ", "m", "e">>>>

\* The messages sent to the orchestrator.
UserInputs == {
    \* "Why does this work?"
    <<"W", "h", "y", " ", "d", "o", "e", "s", " ", "t", "h", "i", "s", " ",
      "w", "o", "r", "k", "?">>,
    \* "Show me"
    <<"S", "h", "o", "w", " ", "m", "e">>,
    \* "Explain to me"
    <<"E", "x", "p", "l", "a", "i", "n", " ", "t", "o", " ", "m", "e">>,
    \* "EXPLAIN TO a game"
    <<"E", "X", "P", "L", "A", "I", "N", " ", "T", "O", " ", "a", " ",
      "g", "a", "m", "e">>,
    \* "explain the challenge"
    <<"e", "x", "p", "l", "a", "i", "n", " ", "t", "h", "e", " ",
      "c", "h", "a", "l", "l", "e", "n", "g", "e">>,
    \* "a GAME to teach"
    <<"a", " ", "G", "A", "M", "E", " ", "t", "o", " ", "t", "e", "a", "c", "h">>,
    \* "SCENARIO"
    <<"S", "C", "E", "N", "A", "R", "I", "O">>,
    \* "the teacher"
    <<"t", "h", "e", " ", "t", "e", "a", "c", "h", "e", "r">>,
    \* "please help me"
    <<"p", "l", "e", "a", "s", "e", " ", "h", "e", "l", "p", " ", "m", "e">>,
    \* "help  me" (two spaces)
    <<"h", "e", "l", "p", " ", " ", "m", "e">>,
    \* "hello there"
    <<"h", "e", "l", "l", "o", " ", "t", "h", "e", "r", "e">>,
    \* "wh y"
    <<"w", "h", " ", "y">>,
    \* "ok"
    <<"o", "k">>
}

\* The round-robin of _decide_next_agent on the incremented counter.
\* A faulty variant: keyed by the counter before its increment.
RoundRobinStale(count) ==
    IF (count - 1) % 4 = 0 THEN PEER
    ELSE IF (count - 1) % 4 = 1 THEN PROVOCATEUR
    ELSE IF (count - 1) % 4 = 2 THEN TEACHABLE
    ELSE TUTOR

RoundRobin(count) ==
    IF count % 4 = 0 THEN PEER
    ELSE IF count % 4 = 1 THEN PROVOCATEUR
    ELSE IF count % 4 = 2 THEN TEACHABLE
    ELSE TUTOR

\* A faulty variant: the Provocateur triggers are tested before the Tutor's.
KeywordAgentProvocateurFirst(user_input) ==
    LET user_input_lower == lower(user_input)
    IN  IF AnyWordIn(ProvocateurWords, user_input_lower) THEN PROVOCATEUR
        ELSE IF AnyWordIn(TutorWords, user_input_lower) THEN TUTOR
        ELSE IF AnyWordIn(TeachableWords, user_input_lower) THEN TEACHABLE
        ELSE None

\* The trigger tests of _decide_next_agent: the agent a keyword selects, or
\* None when the input holds no trigger.
KeywordAgent(user_input) ==
    LET user_input_lower == lower(user_input)
    IN  IF AnyWordIn(TutorWords, user_input_lower) THEN TUTOR
        ELSE IF AnyWordIn(ProvocateurWords, user_input_lower) THEN PROVOCATEUR
        ELSE IF AnyWordIn(TeachableWords, user_input_lower) THEN TEACHABLE
        ELSE None

\* KeywordAgent of the messages above, computed once.
KeywordMemo == [u \in UserInputs |-> KeywordAgent(u)] @@ <<>>

\* OrchestratorService._decide_next_agent, on the incremented counter
decide_next_agent(user_input, count) ==
    LET by_keyword == IF user_input \in DOMAIN KeywordMemo
                      THEN KeywordMemo[user_input]
                      ELSE KeywordAgent(user_input)
    IN  IF by_keyword # None THEN by_keyword ELSE RoundRobin(count)

\* OrchestratorService._create_context (the profile fields are constant)
create_context(user_input, count, last) ==
    [conversation_count |-> count,
     last_agent         |-> last,
     user_input         |-> user_input]

\* OrchestratorService.__init__ / _initialize_agents: one agent per type the
\* registry has registered (a type whose construction fails is skipped).
InitializeAgents(registered) == [t \in registered |-> NewAgent(t)]

\* The registries an orchestrator is built from: the four default agents, a
\* registry that lacks one type, and an empty registry.
Registries == {AgentType, AgentType \ {TEACHABLE}, {}}

\* Whether the input holds none of the nine trigger words (recorded per turn).
TriggerFreeSet ==
    {u \in UserInputs :
        ~ \E w \in {<<"w", "h", "y">>, <<"h", "o", "w">>,
                    <<"e", "x", "p", "l", "a", "i", "n">>,
                    <<"c", "h", "a", "l", "l", "e", "n", "g", "e">>,
                    <<"g", "a", "m", "e">>,
                    <<"s", "c", "e", "n", "a", "r", "i", "o">>,
                    <<"t", "e", "a", "c", "h">>,
                    <<"e", "x", "p", "l", "a", "i", "n", " ", "t", "o">>,
                    <<"h", "e", "l", "p", " ", "m", "e">>} :
            Contains(lower(u), w)}

OrchNew(registered) ==
    /\ agents = InitializeAgents(registered)
    /\ conversation_count = 0
    /\ last_agent_type = None
    /\ orch_call = NoCall
    /\ turn_log = <<>>

OrchInit == \E registered \in Registries : OrchNew(registered)

\* The orchestrator while another component is exercised.
OrchIdle == OrchNew(AgentType)

\* The random draws an agent's process_input makes that change its response.
Draws(agent_type) == IF agent_type = PEER THEN BOOLEAN ELSE {FALSE}

\* A faulty variant: last_agent_type is assigned before the agent is looked up.
LastAgentAfterEager(found, last, agent_type) == agent_type

\* self.last_agent_type after a turn: the assignment (line 69) follows the
\* lookup that raises.
LastAgentAfter(found, last, agent_type) == IF found THEN agent_type ELSE last

process_user_input(user_input) ==
    /\ conversation_count < MaxTurns
    /\ LET count      == conversation_count + 1
           agent_type == decide_next_agent(user_input, count)
       IN  /\ conversation_count' = count
           /\ IF agent_type \notin DOMAIN agents
              THEN \* raise ValueError(f"Agent {agent_type.value} not found")
                   /\ UNCHANGED agents
                   /\ last_agent_type' =
                          LastAgentAfter(FALSE, last_agent_type, agent_type)
                   /\ orch_call' = [op         |-> "process_user_input",
                                    user_input |-> user_input,
                                    count      |-> count,
                                    selected   |-> agent_type,
                                    outcome    |-> "ValueError"]
                   /\ turn_log' = Append(turn_log,
                          [count        |-> count,
                           agent        |-> agent_type,
                           trigger_free |-> user_input \in TriggerFreeSet,
                           ok           |-> FALSE])
              ELSE \E should_error \in Draws(agent_type) :
                   LET context == create_context(user_input, count,
                                                 last_agent_type)
                       r == process_input(agents[agent_type], user_input,
                                          should_error)
                   IN  /\ agents' = [agents EXCEPT ![agent_type] = r.agent]
                       /\ last_agent_type' =
                              LastAgentAfter(TRUE, last_agent_type, agent_type)
                       /\ orch_call' = [op         |-> "process_user_input",
                                        user_input |-> user_input,
                                        count      |-> count,
                                        selected   |-> agent_type,
                                        outcome    |-> "ok",
                                        context    |-> context,
                                        response   |-> r.response]
                       /\ turn_log' = Append(turn_log,
                              [count        |-> count,
                               agent        |-> agent_type,
                               trigger_free |-> user_input \in TriggerFreeSet,
                               ok           |-> TRUE])

-----------------------------------------------------------------------------
(* HistoryService (src/services/history_service.py) *)

\* Inputs of the calls.  correct is True, False or None (Optional[bool]).
Topics == {"Algebra", "Geometry"}
CorrectFlags == {"True", "False", None}
InteractionPoints == {6}
WeakThresholds == {25, 50}
StrongThresholds == {80}

\* (correct_count / total * 100) if total > 0 else 0
AccuracyOf(correct_count, total) ==
    IF total > 0 THEN FloatMulNat(FloatDiv(correct_count, total), 100)
    ELSE FloatZero

\* The accuracies of the counts reached within the bound, computed once.
AccuracyMemo ==
    [x \in (0..(MaxInteractions + 1)) \X (0..(MaxInteractions + 1)) |->
        AccuracyOf(x[1], x[2])] @@ <<>>

Accuracy(correct_count, total) ==
    IF <<correct_count, total>> \in DOMAIN AccuracyMemo
    THEN AccuracyMemo[<<correct_count, total>>]
    ELSE AccuracyOf(correct_count, total)

\* The position of a topic among the keys of topic_performance, 0 if absent.
KeyIndex(perf, topic) ==
    IF \E i \in 1..Len(perf) : perf[i].topic = topic
    THEN CHOOSE i \in 1..Len(perf) : perf[i].topic = topic
    ELSE 0

\* A faulty variant: every answered interaction counts as correct.
update_counting_answered(perf, topic, correct, points_earned) ==
    LET perf1 == IF KeyIndex(perf, topic) = 0
                 THEN Append(perf, [topic              |-> topic,
                                    total_interactions |-> 0,
                                    correct_responses  |-> 0,
                                    total_points       |-> 0,
                                    accuracy           |-> FloatZero])
                 ELSE perf
        i     == KeyIndex(perf1, topic)
        total == perf1[i].total_interactions + 1
        correct_count == perf1[i].correct_responses
                             + (IF correct # None THEN 1 ELSE 0)
    IN  [perf1 EXCEPT ![i] =
            [topic              |-> topic,
             total_interactions |-> total,
             correct_responses  |-> correct_count,
             total_points       |-> perf1[i].total_points + points_earned,
             accuracy           |-> Accuracy(correct_count, total)]]

\* HistoryService._update_topic_performance.  "if correct:" counts True
\* only; False and None do not count.
update_topic_performance(perf, topic, correct, points_earned) ==
    LET perf1 == IF KeyIndex(perf, topic) = 0
                 THEN Append(perf, [topic              |-> topic,
                                    total_interactions |-> 0,
                                    correct_responses  |-> 0,
                                    total_points       |-> 0,
                                    accuracy           |-> FloatZero])
                 ELSE perf
        i     == KeyIndex(perf1, topic)
        total == perf1[i].total_interactions + 1
        correct_count == perf1[i].correct_responses
                             + (IF correct = "True" THEN 1 ELSE 0)
    IN  [perf1 EXCEPT ![i] =
            [topic              |-> topic,
             total_interactions |-> total,
             correct_responses  |-> correct_count,
             total_points       |-> perf1[i].total_points + points_earned,
             accuracy           |-> Accuracy(correct_count, total)]]

\* A faulty variant: no floor of 3 interactions.
IsWeakWithoutFloor(p, threshold) == FloatLess(p.accuracy, FloatOfNat(threshold))

\* perf["accuracy"] < threshold and perf["total_interactions"] >= 3
IsWeak(p, threshold) ==
    FloatLess(p.accuracy, FloatOfNat(threshold)) /\ p.total_interactions >= 3

\* perf["accuracy"] >= threshold and perf["total_interactions"] >= 3
IsStrong(p, threshold) ==
    ~FloatLess(p.accuracy, FloatOfNat(threshold)) /\ p.total_interactions >= 3

\* The list comprehensions over topic_performance.items(), in key order.
RECURSIVE WeakTopics(_, _)
WeakTopics(perf, threshold) ==
    IF perf = <<>> THEN <<>>
    ELSE IF IsWeak(Head(perf), threshold)
         THEN <<Head(perf).topic>> \o WeakTopics(Tail(perf), threshold)
         ELSE WeakTopics(Tail(perf), threshold)

RECURSIVE StrongTopics(_, _)
StrongTopics(perf, threshold) ==
    IF perf = <<>> THEN <<>>
    ELSE IF IsStrong(Head(perf), threshold)
         THEN <<Head(perf).topic>> \o StrongTopics(Tail(perf), threshold)
         ELSE StrongTopics(Tail(perf), threshold)

HistoryInit ==
    /\ interaction_history = <<>>
    /\ topic_performance = <<>>
    /\ weak_areas = <<>>
    /\ strong_areas = <<>>
    /\ history_call = NoCall

add_interaction(topic, correct, points_earned) ==
    /\ Len(interaction_history) < MaxInteractions
    /\ interaction_history' = Append(interaction_history,
           [topic         |-> topic,
            points_earned |-> points_earned,
            correct       |-> correct])
    /\ topic_performance' =
           update_topic_performance(topic_performance, topic, correct,
                                    points_earned)
    /\ history_call' = [op |-> "add_interaction"]
    /\ UNCHANGED <<weak_areas, strong_areas>>

identify_weak_areas(threshold) ==
    /\ weak_areas' = WeakTopics(topic_performance, threshold)
    /\ history_call' = [op        |-> "identify_weak_areas",
                        threshold |-> threshold,
                        ret       |-> weak_areas']
    /\ UNCHANGED <<interaction_history, topic_performance, strong_areas>>

identify_strong_areas(threshold) ==
    /\ strong_areas' = StrongTopics(topic_performance, threshold)
    /\ history_call' = [op        |-> "identify_strong_areas",
                        threshold |-> threshold,
                        ret       |-> strong_areas']
    /\ UNCHANGED <<interaction_history, topic_performance, weak_areas>>

\* HistoryService._suggest_next_challenge
suggest_next_challenge(weak, strong) ==
    IF weak # <<>> THEN <<"focus_on", weak[1]>>
    ELSE IF strong # <<>> THEN <<"doing_great_in", strong[1]>>
    ELSE <<"keep_learning">>

\* HistoryService.get_recommendations, thresholds 50.0 and 80.0
get_recommendations ==
    LET weak   == WeakTopics(topic_performance, 50)
        strong == StrongTopics(topic_performance, 80)
    IN  /\ weak_areas' = weak
        /\ strong_areas' = strong
        /\ history_call' =
               [op  |-> "get_recommendations",
                ret |-> [focus_on       |-> weak,
                         doing_well_in  |-> strong,
                         next_challenge |-> suggest_next_challenge(weak, strong),
                         review_topics  |-> SubSeq(weak, 1, Min(3, Len(weak)))]]
        /\ UNCHANGED <<interaction_history, topic_performance>>

\* A faulty variant: the summary classifies the topics afresh.
HistorySummaryRecomputing ==
    [total_interactions  |-> Len(interaction_history),
     topic_performance   |-> topic_performance,
     weak_areas          |-> WeakTopics(topic_performance, 50),
     strong_areas        |-> StrongTopics(topic_performance, 80),
     recent_interactions |->
         SubSeq(interaction_history,
                Max(1, Len(interaction_history) - 4),
                Len(interaction_history))]

\* The dictionary HistoryService.get_summary returns.
HistorySummary ==
    [total_interactions  |-> Len(interaction_history),
     topic_performance   |-> topic_performance,
     weak_areas          |-> weak_areas,
     strong_areas        |-> strong_areas,
     recent_interactions |->
         SubSeq(interaction_history,
                Max(1, Len(interaction_history) - 4),
                Len(interaction_history))]

\* HistoryService.reset
\* HistoryService.get_summary
get_summary ==
    /\ history_call' = [op |-> "get_summary", ret |-> HistorySummary]
    /\ UNCHANGED <<interaction_history, topic_performance, weak_areas,
                   strong_areas>>

history_reset ==
    /\ interaction_history # <<>>
    /\ interaction_history' = <<>>
    /\ topic_performance' = <<>>
    /\ weak_areas' = <<>>
    /\ strong_areas' = <<>>
    /\ history_call' = [op |-> "reset"]

-----------------------------------------------------------------------------
(* SessionService (src/services/session_service.py) as operations on the   *)
(* value of its sessions dictionary, and the HTTP routes                    *)
(* (src/api/routes/session_routes.py, src/api/routes/chat_routes.py)        *)

\* The names and subjects of the profiles submitted, the message texts sent
\* over HTTP, and a session id that no response ever issued.
ProfileNames == {"Ada", "Bob"}
RouteMessages ==
    {<<"W", "h", "y", " ", "d", "o", "e", "s", " ", "t", "h", "i", "s", " ",
       "w", "o", "r", "k", "?">>,
     <<"h", "e", "l", "l", "o", " ", "t", "h", "e", "r", "e">>}
UnknownSessionId == <<"Eve", 0>>

\* SessionService.__init__: self.sessions = {}
NewSessions == <<>>

\* f"{user_profile.name}_{datetime.now().timestamp()}"
SessionIdOf(name, now) == <<name, now>>

\* SessionService.create_session: the dictionary after the call and the
\* session created.
create_session(store, name, subject, now) ==
    LET session == [session_id     |-> SessionIdOf(name, now),
                    name           |-> name,
                    subject        |-> subject,
                    current_phase  |-> "exploration",
                    current_points |-> 0,
                    total_points   |-> 0,
                    created_at     |-> now,
                    last_activity  |-> now,
                    is_active      |-> TRUE]
    IN  [sessions |-> [id \in DOMAIN store \cup {session.session_id} |->
                          IF id = session.session_id THEN session
                          ELSE store[id]],
         session  |-> session]

\* SessionService.get_session / get_session_or_raise: whether the lookup
\* finds a session (get_session_or_raise raises SessionException if not).
SessionFound(store, session_id) == session_id \in DOMAIN store

\* get_session_service (session_routes.py) and get_services (chat_routes.py)
\* are the routes' dependencies: each request gets the objects they build.
\* register_default_agents() fills the module-level registry of
\* agents/registry.py; get_services builds an AgentRegistry() of its own.
get_session_service == NewSessions
get_services ==
    [session_service |-> NewSessions,
     agent_registry  |-> {},
     points_service  |-> [current_points |-> 0, total_points |-> 0,
                          points_history |-> <<>>],
     history_service |-> [interaction_history |-> <<>>,
                          topic_performance   |-> <<>>]]

RouteInit ==
    /\ clock = 0
    /\ issued = {}
    /\ route_call = NoCall

\* Wall-clock time passes between requests.
Tick ==
    /\ clock < MaxClock
    /\ clock' = clock + 1
    /\ UNCHANGED <<issued, route_call>>

\* POST /create (session_routes.create_session)
create_session_route(name, subject) ==
    /\ Cardinality(issued) < MaxSessions
    /\ LET r == create_session(get_session_service, name, subject, clock)
       IN  /\ issued' = issued \cup {r.session.session_id}
           /\ route_call' = [op         |-> "create_session",
                             status     |-> 200,
                             session_id |-> r.session.session_id,
                             name       |-> name,
                             current_points |-> r.session.current_points]
    /\ UNCHANGED clock


\* POST /message (chat_routes.send_message).  SessionException becomes
\* HTTP 404, AgentException 400 and any other exception 500.  The services
\* of the request are dropped with it.
HttpStatus(exception) ==
    CASE exception = "SessionException" -> 404
      [] exception = "AgentException"   -> 400
      [] OTHER                          -> 500

send_message_route(session_id, message, hint) ==
    LET services == get_services
        request  == [op         |-> "send_message",
                     session_id |-> session_id,
                     message    |-> message,
                     use_hint   |-> hint,
                     registered |-> services.agent_registry]
    IN  /\ IF ~SessionFound(services.session_service, session_id)
           THEN route_call' =
                    request @@ [status |-> HttpStatus("SessionException")]
           ELSE LET session      == services.session_service[session_id]
                    orchestrator == InitializeAgents(services.agent_registry)
                    count        == 1
                    agent_type   == decide_next_agent(message, count)
                IN  IF agent_type \notin DOMAIN orchestrator
                    THEN route_call' =
                             request @@ [status |-> HttpStatus("ValueError")]
                    ELSE \E should_error \in Draws(agent_type) :
                         LET r == process_input(orchestrator[agent_type],
                                                message, should_error)
                             awarded == r.response.points_awarded
                             points_earned ==
                                 IF awarded > 0
                                 THEN PointsEarned("collaboration", awarded)
                                 ELSE 0
                             points ==
                                 [current_points |->
                                      services.points_service.current_points
                                          + points_earned,
                                  total_points |->
                                      services.points_service.total_points
                                          + points_earned]
                             penalty == HintPenalty(points.current_points)
                             after_hint ==
                                 IF hint
                                 THEN Penalize("hint_used", penalty,
                                               points.current_points,
                                               <<>>).current_points
                                 ELSE points.current_points
                             performance ==
                                 update_topic_performance(
                                     services.history_service.topic_performance,
                                     session.subject, None, points_earned)
                         IN  route_call' = request @@
                                 [status         |-> 200,
                                  agent_response |-> r.response,
                                  context        |->
                                      create_context(message, count, None),
                                  session        |-> session,
                                  hint_penalty   |-> IF hint THEN penalty ELSE 0,
                                  topics         |-> Len(performance),
                                  points_summary |->
                                      PointsSummary(after_hint,
                                                    points.total_points),
                                  message_count  |-> 1]
        /\ UNCHANGED <<clock, issued>>

\* POST /hint (chat_routes.request_hint)
request_hint_route(session_id) ==
    LET services == get_services
        request  == [op |-> "request_hint", session_id |-> session_id]
    IN  /\ IF ~SessionFound(services.session_service, session_id)
           THEN route_call' =
                    request @@ [status |-> HttpStatus("SessionException")]
           ELSE LET balance == services.points_service.current_points
                    penalty == HintPenalty(balance)
                    r == Penalize("hint_used", penalty, balance, <<>>)
                IN  route_call' = request @@
                        [status         |-> 200,
                         hint_penalty   |-> HintReturn(penalty, r.ret),
                         current_points |-> r.current_points]
        /\ UNCHANGED <<clock, issued>>

route_vars == <<clock, issued, route_call>>

-----------------------------------------------------------------------------
(* One SessionService instance (src/services/session_service.py) and the   *)
(* calls made on it.  Time is counted in clock readings: two calls made at *)
(* the same reading get the same datetime.now(), and the timeout of the    *)
(* inactivity sweep is given in the same unit.                             *)

\* Inputs of the calls.
SessionSubjects == {"Algebra"}
UpdateKwargs == {[is_active |-> FALSE], [nickname |-> "x"]}
Timeouts == {0, 1}

\* The dictionary without the given keys (del self.sessions[session_id]).
WithoutSessions(store, ids) ==
    [id \in DOMAIN store \ ids |-> store[id]]

\* session.last_activity = datetime.now()
Touch(session, now) == [session EXCEPT !.last_activity = now]

\* SessionService.update_session: setattr for the keys the session has, then
\* last_activity.  raised: SessionException from get_session_or_raise.
update_session(store, session_id, kwargs, now) ==
    IF ~SessionFound(store, session_id)
    THEN [sessions |-> store, raised |-> TRUE]
    ELSE LET session == store[session_id]
             updated == [k \in DOMAIN session |->
                            IF k \in DOMAIN kwargs THEN kwargs[k]
                            ELSE session[k]]
         IN  [sessions |-> [store EXCEPT ![session_id] = Touch(updated, now)],
              raised   |-> FALSE]

\* SessionService.add_message
add_message(store, session_id, now) ==
    IF ~SessionFound(store, session_id)
    THEN [sessions |-> store, raised |-> TRUE]
    ELSE [sessions |-> [store EXCEPT ![session_id] = Touch(@, now)],
          raised   |-> FALSE]

\* SessionService.close_session
close_session(store, session_id, now) ==
    IF ~SessionFound(store, session_id)
    THEN [sessions |-> store, raised |-> TRUE]
    ELSE [sessions |-> [store EXCEPT ![session_id] =
                           Touch([@ EXCEPT !.is_active = FALSE], now)],
          raised   |-> FALSE]

\* SessionService.delete_session
delete_session(store, session_id) ==
    IF session_id \notin DOMAIN store
    THEN [sessions |-> store, raised |-> TRUE]
    ELSE [sessions |-> WithoutSessions(store, {session_id}),
          raised   |-> FALSE]

\* SessionService.cleanup_inactive_sessions: the ids collected by the loop
\* over self.sessions.items().
SessionsToDelete(store, timeout_minutes, now) ==
    {id \in DOMAIN store :
        /\ store[id].is_active
        /\ now - store[id].last_activity > timeout_minutes}

\* SessionService.cleanup_inactive_sessions
cleanup_inactive_sessions(store, timeout_minutes, now) ==
    LET sessions_to_delete == SessionsToDelete(store, timeout_minutes, now)
    IN  [sessions |-> WithoutSessions(store, sessions_to_delete),
         ret      |-> Cardinality(sessions_to_delete)]

SessionInit ==
    /\ sessions = NewSessions
    /\ creates_made = 0
    /\ deletions_made = 0
    /\ session_call = NoCall

\* The session ids a caller passes: those in the store and one that is not.
SessionIds == DOMAIN sessions \cup {UnknownSessionId}

CreateSession(name, subject) ==
    /\ creates_made < MaxSessions
    /\ LET r == create_session(sessions, name, subject, clock)
       IN  /\ sessions' = r.sessions
           /\ session_call' = [op         |-> "create_session",
                               session_id |-> r.session.session_id,
                               raised     |-> FALSE,
                               ret        |-> r.session]
    /\ creates_made' = creates_made + 1
    /\ UNCHANGED deletions_made

GetSessionOrRaise(session_id) ==
    /\ session_call' =
           IF SessionFound(sessions, session_id)
           THEN [op         |-> "get_session_or_raise",
                 session_id |-> session_id,
                 raised     |-> FALSE,
                 ret        |-> sessions[session_id]]
           ELSE [op         |-> "get_session_or_raise",
                 session_id |-> session_id,
                 raised     |-> TRUE]
    /\ UNCHANGED <<sessions, creates_made, deletions_made>>

UpdateSession(session_id, kwargs) ==
    /\ LET r == update_session(sessions, session_id, kwargs, clock)
       IN  /\ sessions' = r.sessions
           /\ session_call' = [op         |-> "update_session",
                               session_id |-> session_id,
                               raised     |-> r.raised]
    /\ UNCHANGED <<creates_made, deletions_made>>

AddMessage(session_id) ==
    /\ LET r == add_message(sessions, session_id, clock)
       IN  /\ sessions' = r.sessions
           /\ session_call' = [op         |-> "add_message",
                               session_id |-> session_id,
                               raised     |-> r.raised]
    /\ UNCHANGED <<creates_made, deletions_made>>

CloseSession(session_id) ==
    /\ LET r == close_session(sessions, session_id, clock)
       IN  /\ sessions' = r.sessions
           /\ session_call' = [op         |-> "close_session",
                               session_id |-> session_id,
                               raised     |-> r.raised]
    /\ UNCHANGED <<creates_made, deletions_made>>

DeleteSession(session_id) ==
    /\ LET r == delete_session(sessions, session_id)
       IN  /\ sessions' = r.sessions
           /\ session_call' = [op         |-> "delete_session",
                               session_id |-> session_id,
                               raised     |-> r.raised]
           /\ deletions_made' = deletions_made + (IF r.raised THEN 0 ELSE 1)
    /\ UNCHANGED creates_made

CleanupInactiveSessions(timeout_minutes) ==
    /\ LET r == cleanup_inactive_sessions(sessions, timeout_minutes, clock)
       IN  /\ sessions' = r.sessions
           /\ session_call' = [op              |-> "cleanup_inactive_sessions",
                               timeout_minutes |-> timeout_minutes,
                               raised          |-> FALSE,
                               ret             |-> r.ret]
           /\ deletions_made' = deletions_made + r.ret
    /\ UNCHANGED creates_made

session_vars == <<sessions, creates_made, deletions_made, session_call>>

-----------------------------------------------------------------------------
(* One AgentRegistry instance (src/agents/registry.py) and the calls made  *)
(* on it.  An agent is known here by its class and its agent_type; a       *)
(* factory by the agent it makes.                                          *)

\* Inputs of the calls.  A custom factory is a callable that makes an agent
\* of its own choosing; NoFactory is factory=None; an instance_id that is
\* None or "" does not name the instance.
RegistryTypes == {TUTOR, PEER}
AgentClasses == {"SocraticTutorAgent", "VirtualPeerAgent"}
NoFactory == [kind |-> "none"]
CustomFactories ==
    {[kind |-> "custom", class |-> "VirtualPeerAgent", agent_type |-> PEER]}
InstanceIds == {"", "a", "b"}

\* A faulty variant: the class is constructed with its own default type.
DefaultFactoryOfClass(agent_type, agent_class) ==
    [kind       |-> "default",
     class      |-> agent_class,
     agent_type |-> IF agent_class = "VirtualPeerAgent" THEN PEER ELSE TUTOR]

\* lambda: agent_class(agent_type)
DefaultFactory(agent_type, agent_class) ==
    [kind |-> "default", class |-> agent_class, agent_type |-> agent_type]

\* factory()
MakeAgent(factory) ==
    [class |-> factory.class, agent_type |-> factory.agent_type]

\* AgentRegistry.__init__
NewRegistry ==
    [agent_classes |-> <<>>, agent_factories |-> <<>>, instances |-> <<>>]

\* d[key] = value on a dictionary
DictSet(d, key, value) ==
    [k \in DOMAIN d \cup {key} |-> IF k = key THEN value ELSE d[k]]

\* A faulty variant: a second registration replaces the first.
register_agent_overwriting(reg, agent_type, agent_class, factory) ==
    [reg    |-> [reg EXCEPT
                    !.agent_classes =
                        DictSet(@, agent_type, agent_class),
                    !.agent_factories =
                        DictSet(@, agent_type,
                                IF factory # NoFactory THEN factory
                                ELSE DefaultFactory(agent_type, agent_class))],
     raised |-> FALSE]

\* AgentRegistry.register_agent; raised: RegistryException
register_agent(reg, agent_type, agent_class, factory) ==
    IF agent_type \in DOMAIN reg.agent_classes
    THEN [reg |-> reg, raised |-> TRUE]
    ELSE [reg    |-> [reg EXCEPT
                         !.agent_classes =
                             DictSet(@, agent_type, agent_class),
                         !.agent_factories =
                             DictSet(@, agent_type,
                                     IF factory # NoFactory THEN factory
                                     ELSE DefaultFactory(agent_type,
                                                         agent_class))],
          raised |-> FALSE]

\* A faulty variant: the instances are left as they are.
unregister_agent_keeping_instances(reg, agent_type) ==
    IF agent_type \notin DOMAIN reg.agent_classes
    THEN [reg |-> reg, raised |-> TRUE]
    ELSE [reg    |-> [reg EXCEPT
                         !.agent_classes =
                             [t \in DOMAIN @ \ {agent_type} |-> @[t]],
                         !.agent_factories =
                             [t \in DOMAIN @ \ {agent_type} |-> @[t]]],
          raised |-> FALSE]

\* AgentRegistry.unregister_agent
unregister_agent(reg, agent_type) ==
    IF agent_type \notin DOMAIN reg.agent_classes
    THEN [reg |-> reg, raised |-> TRUE]
    ELSE [reg    |-> [agent_classes |->
                         [t \in DOMAIN reg.agent_classes \ {agent_type} |->
                             reg.agent_classes[t]],
                      agent_factories |->
                         [t \in DOMAIN reg.agent_factories \ {agent_type} |->
                             reg.agent_factories[t]],
                      instances |->
                         [k \in {i \in DOMAIN reg.instances :
                                    reg.instances[i].agent_type # agent_type}
                             |-> reg.instances[k]]],
          raised |-> FALSE]

\* AgentRegistry.create_agent
create_agent(reg, agent_type, instance_id) ==
    IF agent_type \notin DOMAIN reg.agent_classes
    THEN [reg |-> reg, raised |-> TRUE]
    ELSE LET agent == MakeAgent(reg.agent_factories[agent_type])
         IN  [reg    |-> IF instance_id # ""
                         THEN [reg EXCEPT !.instances =
                                   DictSet(@, instance_id, agent)]
                         ELSE reg,
              raised |-> FALSE,
              ret    |-> agent]

RegistryInit ==
    /\ agent_classes = NewRegistry.agent_classes
    /\ agent_factories = NewRegistry.agent_factories
    /\ instances = NewRegistry.instances
    /\ registry_call = NoCall

\* The registry as one value, and the assignment of a call's result.
TheRegistry ==
    [agent_classes   |-> agent_classes,
     agent_factories |-> agent_factories,
     instances       |-> instances]

SetRegistry(reg) ==
    /\ agent_classes' = reg.agent_classes
    /\ agent_factories' = reg.agent_factories
    /\ instances' = reg.instances

RegisterAgent(agent_type, agent_class, factory) ==
    LET r == register_agent(TheRegistry, agent_type, agent_class, factory)
    IN  /\ SetRegistry(r.reg)
        /\ registry_call' = [op          |-> "register_agent",
                             agent_type  |-> agent_type,
                             agent_class |-> agent_class,
                             factory     |-> factory,
                             raised      |-> r.raised]

UnregisterAgent(agent_type) ==
    LET r == unregister_agent(TheRegistry, agent_type)
    IN  /\ SetRegistry(r.reg)
        /\ registry_call' = [op         |-> "unregister_agent",
                             agent_type |-> agent_type,
                             raised     |-> r.raised,
                             removed    |-> DOMAIN instances
                                                \ DOMAIN r.reg.instances]

CreateAgent(agent_type, instance_id) ==
    LET r == create_agent(TheRegistry, agent_type, instance_id)
    IN  /\ SetRegistry(r.reg)
        /\ registry_call' =
               IF r.raised
               THEN [op          |-> "create_agent",
                     agent_type  |-> agent_type,
                     instance_id |-> instance_id,
                     raised      |-> TRUE]
               ELSE [op          |-> "create_agent",
                     agent_type  |-> agent_type,
                     instance_id |-> instance_id,
                     raised      |-> FALSE,
                     ret         |-> r.ret]

\* AgentRegistry.get_agent: self._instances.get(instance_id)
GetAgent(instance_id) ==
    /\ registry_call' =
           IF instance_id \in DOMAIN instances
           THEN [op          |-> "get_agent",
                 instance_id |-> instance_id,
                 raised      |-> FALSE,
                 found       |-> TRUE,
                 ret         |-> instances[instance_id]]
           ELSE [op          |-> "get_agent",
                 instance_id |-> instance_id,
                 raised      |-> FALSE,
                 found       |-> FALSE]
    /\ UNCHANGED <<agent_classes, agent_factories, instances>>

\* AgentRegistry.clear_instances
ClearInstances ==
    /\ instances' = <<>>
    /\ registry_call' = [op |-> "clear_instances", raised |-> FALSE]
    /\ UNCHANGED <<agent_classes, agent_factories>>

registry_vars == <<agent_classes, agent_factories, instances, registry_call>>

-----------------------------------------------------------------------------
(* Several process_user_input calls dispatched on one event loop          *)
(* (src/services/orchestrator_service.py)                                  *)

\* The messages of the dispatched calls: "Why does this work?", "the teacher"
\* and "ok".
TaskInputs == {
    <<"W", "h", "y", " ", "d", "o", "e", "s", " ", "t", "h", "i", "s", " ",
      "w", "o", "r", "k", "?">>,
    <<"t", "h", "e", " ", "t", "e", "a", "c", "h", "e", "r">>,
    <<"o", "k">>
}

\* A faulty variant: the awaited process_input hands control back to the loop.
SuspendsAlways(agent_type) == agent_type \in AgentType

\* Whether `await agent.process_input(...)` (line 66) suspends the calling
\* task.  Awaiting a coroutine runs its body in the caller's task and suspends
\* only where that body awaits something pending; the process_input bodies of
\* the four agent classes hold no await.
Suspends(agent_type) == agent_type \in {}

\* The context of a call that has not built one.
NoContext == [conversation_count |-> 0, last_agent |-> None, user_input |-> <<>>]

\* A call that was dispatched and has not run yet.
NewTask(user_input) ==
    [pc         |-> "pending",
     user_input |-> user_input,
     count      |-> 0,
     agent_type |-> None,
     context    |-> NoContext]

TasksInit == tasks = <<>>

\* Calling the coroutine function and handing the coroutine to the loop.
Dispatch(user_input) ==
    /\ Len(tasks) < MaxTasks
    /\ tasks' = Append(tasks, NewTask(user_input))
    /\ UNCHANGED <<agents, conversation_count, last_agent_type>>

\* The event loop runs one task until it suspends, returns or raises: a
\* pending task from line 52, a suspended one from line 69.
RunTask(i) ==
    /\ tasks[i].pc \in {"pending", "suspended"}
    /\ IF tasks[i].pc = "pending"
       THEN LET user_input == tasks[i].user_input
                count      == conversation_count + 1
                agent_type == decide_next_agent(user_input, count)
            IN  /\ conversation_count' = count
                /\ IF agent_type \notin DOMAIN agents
                   THEN /\ tasks' = [tasks EXCEPT ![i] =
                                [@ EXCEPT !.pc = "failed", !.count = count,
                                          !.agent_type = agent_type]]
                        /\ UNCHANGED <<agents, last_agent_type>>
                   ELSE \E should_error \in Draws(agent_type) :
                        LET context == create_context(user_input, count,
                                                      last_agent_type)
                            r == process_input(agents[agent_type], user_input,
                                               should_error)
                            suspended == Suspends(agent_type)
                        IN  /\ agents' = [agents EXCEPT ![agent_type] = r.agent]
                            /\ tasks' = [tasks EXCEPT ![i] =
                                   [pc         |-> IF suspended
                                                   THEN "suspended" ELSE "done",
                                    user_input |-> user_input,
                                    count      |-> count,
                                    agent_type |-> agent_type,
                                    context    |-> context]]
                            /\ last_agent_type' =
                                   IF suspended THEN last_agent_type
                                   ELSE LastAgentAfter(TRUE, last_agent_type,
                                                       agent_type)
       ELSE /\ last_agent_type' =
                   LastAgentAfter(TRUE, last_agent_type, tasks[i].agent_type)
            /\ tasks' = [tasks EXCEPT ![i] = [@ EXCEPT !.pc = "done"]]
            /\ UNCHANGED <<agents, conversation_count>>

task_vars == <<tasks>>

-----------------------------------------------------------------------------
(* One agent instance, exercised on its own                               *)
(* (src/agents/base_implementations.py, src/core/base_agent.py)            *)

\* The lengths of the messages sent to the agent, around both thresholds of
\* TeachableAgent._evaluate_teaching.
InputLengths == {0, 50, 51, 100, 101}

\* A message of n characters.
Text(n) == [i \in 1..n |-> "x"]

AgentInputs == {Text(n) : n \in InputLengths}

AgentNew(agent_type) ==
    /\ the_agent = NewAgent(agent_type)
    /\ agent_call = NoCall

AgentInit == \E agent_type \in AgentType : AgentNew(agent_type)

\* The instance while another component is exercised.
AgentIdle == AgentNew(TUTOR)

\* One turn of the instance: process_input of its class.
ProcessInput(user_input, should_error) ==
    /\ Len(the_agent.conversation_history) < 2 * MaxAgentTurns
    /\ LET r == process_input(the_agent, user_input, should_error)
       IN  /\ the_agent' = r.agent
           /\ agent_call' = [op         |-> "process_input",
                             user_input |-> user_input,
                             pre        |-> the_agent,
                             response   |-> r.response]

\* A faulty variant: the route awards whatever the response carries.
AwardResponseUnconditional ==
    /\ agent_call.op = "process_input"
    /\ award_points("collaboration", agent_call.response.points_awarded)
    /\ agent_call' = [op            |-> "award",
                      response      |-> agent_call.response,
                      points_earned |-> points_call'.ret,
                      ledger_before |-> points_history]
    /\ UNCHANGED the_agent

\* send_message, lines 63-70: the award the message route makes for the
\* response the agent has just given.
AwardResponse ==
    /\ agent_call.op = "process_input"
    /\ LET awarded == agent_call.response.points_awarded
       IN  /\ IF awarded > 0
              THEN award_points("collaboration", awarded)
              ELSE UNCHANGED points_vars
           /\ agent_call' = [op            |-> "award",
                             response      |-> agent_call.response,
                             points_earned |-> IF awarded > 0
                                               THEN points_call'.ret ELSE 0,
                             ledger_before |-> points_history]
    /\ UNCHANGED the_agent

agent_vars == <<the_agent, agent_call>>

-----------------------------------------------------------------------------
(* Specifications: one per component, the other components at rest *)

PointsRest ==
    UNCHANGED <<orch_vars, history_vars, route_vars, session_vars,
                registry_vars,
                task_vars, agent_vars>>
OrchRest ==
    UNCHANGED <<points_vars, history_vars, route_vars, session_vars,
                registry_vars,
                task_vars, agent_vars>>
HistoryRest ==
    UNCHANGED <<points_vars, orch_vars, route_vars, session_vars,
                registry_vars,
                task_vars, agent_vars>>
RouteRest ==
    UNCHANGED <<points_vars, orch_vars, history_vars, session_vars,
                registry_vars,
                task_vars, agent_vars>>
SessionRest ==
    UNCHANGED <<points_vars, orch_vars, history_vars, route_vars,
                registry_vars,
                task_vars, agent_vars>>
RegistryRest ==
    UNCHANGED <<points_vars, orch_vars, history_vars, route_vars,
                session_vars,
                task_vars, agent_vars>>

PointsNext ==
    \/ \E a \in ActionTypes, b \in BasePoints :
           award_points(a, b) /\ PointsRest
    \/ \E p \in PenaltyAmounts : penalize_points("penalty", p) /\ PointsRest
    \/ use_hint /\ PointsRest
    \/ reset /\ PointsRest

OrchNext ==
    \/ \E u \in UserInputs : process_user_input(u) /\ OrchRest

HistoryNext ==
    \/ \E t \in Topics, c \in CorrectFlags, p \in InteractionPoints :
           add_interaction(t, c, p) /\ HistoryRest
    \/ \E th \in WeakThresholds : identify_weak_areas(th) /\ HistoryRest
    \/ \E th \in StrongThresholds : identify_strong_areas(th) /\ HistoryRest
    \/ get_recommendations /\ HistoryRest
    \/ get_summary /\ HistoryRest
    \/ history_reset /\ HistoryRest

RouteNext ==
    \/ Tick /\ RouteRest
    \/ \E n \in ProfileNames, t \in Topics :
           create_session_route(n, t) /\ RouteRest
    \/ \E id \in issued \cup {UnknownSessionId}, m \in RouteMessages,
          h \in BOOLEAN :
           send_message_route(id, m, h) /\ RouteRest
    \/ \E id \in issued \cup {UnknownSessionId} :
           request_hint_route(id) /\ RouteRest

SessionNext ==
    \/ Tick /\ RouteRest
    \/ \E n \in ProfileNames, t \in SessionSubjects :
           CreateSession(n, t) /\ SessionRest
    \/ \E id \in SessionIds : GetSessionOrRaise(id) /\ SessionRest
    \/ \E id \in SessionIds, kw \in UpdateKwargs :
           UpdateSession(id, kw) /\ SessionRest
    \/ \E id \in SessionIds : AddMessage(id) /\ SessionRest
    \/ \E id \in SessionIds : CloseSession(id) /\ SessionRest
    \/ \E id \in SessionIds : DeleteSession(id) /\ SessionRest
    \/ \E t \in Timeouts : CleanupInactiveSessions(t) /\ SessionRest

RegistryNext ==
    \/ \E t \in RegistryTypes, c \in AgentClasses,
          f \in CustomFactories \cup {NoFactory} :
           RegisterAgent(t, c, f) /\ RegistryRest
    \/ \E t \in RegistryTypes : UnregisterAgent(t) /\ RegistryRest
    \/ \E t \in RegistryTypes, i \in InstanceIds :
           CreateAgent(t, i) /\ RegistryRest
    \/ \E i \in InstanceIds : GetAgent(i) /\ RegistryRest
    \/ ClearInstances /\ RegistryRest

\* The registry used with default factories only (factory=None).
DefaultRegistryNext ==
    \/ \E t \in RegistryTypes, c \in AgentClasses :
           RegisterAgent(t, c, NoFactory) /\ RegistryRest
    \/ \E t \in RegistryTypes : UnregisterAgent(t) /\ RegistryRest
    \/ \E t \in RegistryTypes, i \in InstanceIds :
           CreateAgent(t, i) /\ RegistryRest
    \/ ClearInstances /\ RegistryRest

TaskRest ==
    UNCHANGED <<points_vars, orch_call, turn_log, history_vars, route_vars,
                session_vars, registry_vars, agent_vars>>
AgentRest ==
    UNCHANGED <<orch_vars, history_vars, route_vars, session_vars,
                registry_vars, task_vars>>

TaskNext ==
    \/ \E u \in TaskInputs : Dispatch(u) /\ TaskRest
    \/ \E i \in DOMAIN tasks : RunTask(i) /\ TaskRest

AgentNext ==
    \/ \E u \in AgentInputs, d \in Draws(the_agent.agent_type) :
           ProcessInput(u, d) /\ UNCHANGED points_vars /\ AgentRest
    \/ AwardResponse /\ AgentRest

Init ==
    /\ PointsInit /\ OrchInit /\ HistoryInit /\ RouteInit /\ SessionInit
    /\ RegistryInit /\ TasksInit /\ AgentInit
Next ==
    \/ PointsNext \/ OrchNext \/ HistoryNext \/ RouteNext \/ SessionNext
    \/ RegistryNext \/ TaskNext \/ AgentNext
Spec == Init /\ [][Next]_vars

PointsSpecInit ==
    /\ PointsInit /\ OrchIdle /\ HistoryInit /\ RouteInit /\ SessionInit
    /\ RegistryInit /\ TasksInit /\ AgentIdle
PointsSpec == PointsSpecInit /\ [][PointsNext]_vars

OrchSpecInit ==
    /\ OrchInit /\ PointsInit /\ HistoryInit /\ RouteInit /\ SessionInit
    /\ RegistryInit /\ TasksInit /\ AgentIdle
OrchSpec == OrchSpecInit /\ [][OrchNext]_vars

HistorySpecInit ==
    /\ HistoryInit /\ PointsInit /\ OrchIdle /\ RouteInit /\ SessionInit
    /\ RegistryInit /\ TasksInit /\ AgentIdle
HistorySpec == HistorySpecInit /\ [][HistoryNext]_vars

RouteSpecInit ==
    /\ RouteInit /\ PointsInit /\ OrchIdle /\ HistoryInit /\ SessionInit
    /\ RegistryInit /\ TasksInit /\ AgentIdle
RouteSpec == RouteSpecInit /\ [][RouteNext]_vars

SessionSpecInit ==
    /\ SessionInit /\ RouteInit /\ PointsInit /\ OrchIdle /\ HistoryInit
    /\ RegistryInit /\ TasksInit /\ AgentIdle
SessionSpec == SessionSpecInit /\ [][SessionNext]_vars

RegistrySpecInit ==
    /\ RegistryInit
    /\ PointsInit /\ OrchIdle /\ HistoryInit /\ RouteInit /\ SessionInit
    /\ TasksInit /\ AgentIdle
RegistrySpec == RegistrySpecInit /\ [][RegistryNext]_vars

DefaultRegistrySpecInit ==
    /\ RegistryInit
    /\ PointsInit /\ OrchIdle /\ HistoryInit /\ RouteInit /\ SessionInit
    /\ TasksInit /\ AgentIdle
DefaultRegistrySpec == DefaultRegistrySpecInit /\ [][DefaultRegistryNext]_vars

TaskSpecInit ==
    /\ OrchInit /\ TasksInit
    /\ PointsInit /\ HistoryInit /\ RouteInit /\ SessionInit /\ RegistryInit
    /\ AgentIdle
TaskSpec == TaskSpecInit /\ [][TaskNext]_vars

AgentSpecInit ==
    /\ AgentInit
    /\ PointsInit /\ OrchIdle /\ HistoryInit /\ RouteInit /\ SessionInit
    /\ RegistryInit /\ TasksInit
AgentSpec == AgentSpecInit /\ [][AgentNext]_vars

-----------------------------------------------------------------------------
(* Claims about PointsService, checked under PointsSpec *)

\* The multiplier table as exact fractions, for statements in real arithmetic.
ExactNum(action_type) ==
    CASE action_type = "curiosity"            -> 3
      [] action_type = "critical_thinking"    -> 2
      [] action_type = "collaboration"        -> 13
      [] action_type = "teaching"             -> 5
      [] action_type = "challenge_completion" -> 3
      [] action_type = "hint_penalty"         -> 7
      [] OTHER                                -> 1
ExactDen(action_type) ==
    CASE action_type \in {"curiosity", "teaching"}          -> 2
      [] action_type \in {"collaboration", "hint_penalty"} -> 10
      [] OTHER                                              -> 1
\* floor(base_points x m) for base_points >= 0
ExactFloor(action_type, base_points) ==
    (base_points * ExactNum(action_type)) \div ExactDen(action_type)

\* C1: every award_points(action_type, base_points) call with base_points >= 0
\* returns floor(base_points x m), m the table's multiplier of action_type
\* (1.0 for an unknown action), and raises current_points and total_points by
\* exactly the value returned.
C1_AwardIsFloorOfProduct ==
    (points_call.op = "award_points" /\ points_call.base_points >= 0) =>
        /\ points_call.ret =
               ExactFloor(points_call.action_type, points_call.base_points)
        /\ current_points = points_call.pre_current + points_call.ret
        /\ total_points = points_call.pre_total + points_call.ret

\* C2: every penalize_points(reason, amount) call returns
\* min(amount, current_points before), leaves current_points at the balance
\* before minus the value returned, which is >= 0, and leaves total_points
\* unchanged.
C2_PenalizeClamps ==
    points_call.op = "penalize_points" =>
        LET amount == points_call.points_to_deduct
            before == points_call.pre_current
        IN  /\ points_call.ret = (IF amount <= before THEN amount ELSE before)
            /\ current_points = before - points_call.ret
            /\ current_points >= 0
            /\ total_points = points_call.pre_total

\* C2's case: a penalty larger than a positive balance has been applied.
C2_Witness ==
    /\ points_call.op = "penalize_points"
    /\ points_call.pre_current > 0
    /\ points_call.points_to_deduct > points_call.pre_current
    /\ points_call.ret = points_call.pre_current

\* C3: current_points >= 0 in every state reachable by award_points,
\* penalize_points, use_hint and reset, for any integers the methods accept.
C3_BalanceNeverNegative == current_points >= 0

\* C4: total_points never decreases across an award_points (base_points >= 0),
\* penalize_points or use_hint step, and penalize_points and use_hint leave it
\* exactly unchanged.
C4_TotalNeverDecreases ==
    [][/\ (points_call'.op = "award_points" /\ points_call'.base_points >= 0)
            => total_points' >= total_points
       /\ points_call'.op \in {"penalize_points", "use_hint"}
            => total_points' = total_points]_vars

\* C4's case: a penalty and an award have both acted on a positive total.
C4_Witness ==
    /\ points_call.op \in {"penalize_points", "use_hint"}
    /\ total_points > 0
    /\ current_points < total_points

\* C5: every use_hint() call on balance b computes the penalty
\* max(1, floor(b x 0.1)), applies one penalize with reason "hint_used" and
\* that amount, and leaves current_points = b - min(penalty, b).
C5_UseHintPenalty ==
    [][points_call'.op = "use_hint" =>
          LET b       == current_points
              tenth   == b \div 10
              penalty == IF tenth >= 1 THEN tenth ELSE 1
              applied == IF penalty <= b THEN penalty ELSE b
          IN  /\ points_call'.ret = penalty
              /\ points_history' = Append(points_history,
                     [action          |-> "penalty",
                      reason          |-> "hint_used",
                      points_deducted |-> applied])
              /\ current_points' = b - applied]_vars

\* C5's case: a hint taken at balance 6 costs 1 and leaves 5.
C5_Witness ==
    /\ points_call.op = "use_hint"
    /\ points_call.pre_current = 6
    /\ points_call.ret = 1
    /\ current_points = 5

\* C10: for every reachable total_points >= 0 the level is
\* floor(total_points / 100) + 1, the next threshold is level x 100, and the
\* progress percentage equals total_points - (level - 1) x 100 and lies in
\* [0, 100].
C10_LevelAndProgress ==
    total_points >= 0 =>
        LET level == (total_points \div 100) + 1
        IN  /\ get_current_level = level
            /\ get_next_level_threshold = level * 100
            /\ get_progress_percentage =
                   FloatOfNat(total_points - (level - 1) * 100)
            /\ ~FloatLess(get_progress_percentage, FloatZero)
            /\ ~FloatLess(FloatOfNat(100), get_progress_percentage)

\* C16: use_hint() returns the number of points the call actually deducted
\* from current_points, for every starting balance including 0 (so the
\* hint_penalty the hint route reports is the drop in current_points).
C16_UseHintReturnsDeducted ==
    points_call.op = "use_hint" =>
        points_call.ret = points_call.pre_current - current_points

-----------------------------------------------------------------------------
(* Claims about OrchestratorService, checked under OrchSpec *)

\* The messages whose lower-cased text contains one of the given words.
Mentioning(words) ==
    {u \in UserInputs : \E w \in words : Contains(lower(u), w)}
WithTutorWord ==
    Mentioning({<<"w", "h", "y">>, <<"h", "o", "w">>,
                <<"e", "x", "p", "l", "a", "i", "n">>})
WithProvocateurWord ==
    Mentioning({<<"c", "h", "a", "l", "l", "e", "n", "g", "e">>,
                <<"g", "a", "m", "e">>,
                <<"s", "c", "e", "n", "a", "r", "i", "o">>})
WithTeachableWord ==
    Mentioning({<<"t", "e", "a", "c", "h">>,
                <<"e", "x", "p", "l", "a", "i", "n", " ", "t", "o">>,
                <<"h", "e", "l", "p", " ", "m", "e">>})

\* The agent the round-robin gives for counter value c.
ByCounter(c) ==
    CASE c % 4 = 0 -> PEER
      [] c % 4 = 1 -> PROVOCATEUR
      [] c % 4 = 2 -> TEACHABLE
      [] c % 4 = 3 -> TUTOR

\* C6: agent selection follows keyword precedence on the lower-cased input, by
\* substring: "why", "how" or "explain" selects Tutor whatever the counter and
\* the other triggers; otherwise "challenge", "game" or "scenario" selects
\* Provocateur; otherwise "teach", "explain to" or "help me" selects Teachable;
\* only otherwise the round-robin on the counter is used.
C6_KeywordPrecedence ==
    orch_call.op = "process_user_input" =>
        LET u   == orch_call.user_input
            sel == orch_call.selected
        IN  IF u \in WithTutorWord THEN sel = TUTOR
            ELSE IF u \in WithProvocateurWord THEN sel = PROVOCATEUR
            ELSE IF u \in WithTeachableWord THEN sel = TEACHABLE
            ELSE sel = ByCounter(orch_call.count)

\* C6's case: an input with a Tutor trigger and a Provocateur trigger, on a
\* turn whose round-robin agent is not the Tutor, went to the Tutor.
C6_Witness ==
    /\ orch_call.op = "process_user_input"
    /\ orch_call.user_input \in WithTutorWord \cap WithProvocateurWord
    /\ orch_call.count % 4 # 3
    /\ orch_call.selected = TUTOR

\* C7: with all four agents live, any 4 consecutive process_user_input calls
\* whose inputs hold no trigger keyword select all four agent types exactly
\* once, each the one fixed by the counter after its increment (c mod 4 = 0
\* Peer, 1 Provocateur, 2 Teachable, 3 Tutor); a fresh orchestrator's first
\* turn, when trigger-free, goes to Provocateur.
C7_RoundRobinWindow ==
    DOMAIN agents = AgentType =>
        /\ \A i \in 1..(Len(turn_log) - 3) :
              (\A j \in 0..3 : turn_log[i + j].trigger_free) =>
                  /\ \A j \in 0..3 :
                        /\ turn_log[i + j].ok
                        /\ turn_log[i + j].count = turn_log[i].count + j
                        /\ turn_log[i + j].agent = ByCounter(turn_log[i + j].count)
                  /\ {turn_log[i + j].agent : j \in 0..3} = AgentType
                  /\ \A j, k \in 0..3 :
                        j # k => turn_log[i + j].agent # turn_log[i + k].agent
        /\ (turn_log # <<>> /\ turn_log[1].trigger_free) =>
              turn_log[1].agent = PROVOCATEUR

\* C7's case: after a keyword turn, four trigger-free turns in a row (counter
\* values 2, 3, 4, 5) on an orchestrator with all four agents.
C7_Witness ==
    /\ DOMAIN agents = AgentType
    /\ Len(turn_log) = 5
    /\ ~turn_log[1].trigger_free
    /\ \A i \in 2..5 : turn_log[i].trigger_free

-----------------------------------------------------------------------------
(* Claims about HistoryService *)

\* The interactions recorded for a topic, and those of them answered
\* correctly, counted from interaction_history.
Recorded(topic) ==
    Cardinality({i \in 1..Len(interaction_history) :
                     interaction_history[i].topic = topic})
RecordedCorrect(topic) ==
    Cardinality({i \in 1..Len(interaction_history) :
                     /\ interaction_history[i].topic = topic
                     /\ interaction_history[i].correct = "True"})

\* C9: after any sequence of add_interaction calls, identify_weak_areas(
\* threshold) returns exactly the topics whose accuracy (correct / total * 100)
\* is below the threshold and whose number of interactions is at least 3, each
\* once; it never returns a topic with fewer than 3 recorded interactions.
C9_WeakAreasExact ==
    history_call.op = "identify_weak_areas" =>
        LET ret == history_call.ret
            th  == history_call.threshold
        IN  /\ {ret[i] : i \in 1..Len(ret)} =
                   {t \in Topics : /\ Recorded(t) >= 3
                                   /\ 100 * RecordedCorrect(t) < th * Recorded(t)}
            /\ \A i, j \in 1..Len(ret) : i # j => ret[i] # ret[j]
            /\ \A i \in 1..Len(ret) : Recorded(ret[i]) >= 3
            /\ weak_areas = ret

\* C9's case: three incorrect answers on Algebra and a single incorrect answer
\* on Geometry; at threshold 50 Algebra is returned and Geometry, at accuracy
\* 0 with one interaction, is not.
C9_Witness ==
    /\ history_call.op = "identify_weak_areas"
    /\ history_call.threshold = 50
    /\ Recorded("Algebra") = 3
    /\ RecordedCorrect("Algebra") = 0
    /\ Recorded("Geometry") = 1
    /\ RecordedCorrect("Geometry") = 0
    /\ history_call.ret = <<"Algebra">>

\* The example of C9 continued: a topic with three incorrect answers and a
\* fourth, correct, one is at accuracy 25 and is still returned at threshold
\* 50.
C9_StaysWeakAfterCorrect ==
    (/\ history_call.op = "identify_weak_areas"
     /\ history_call.threshold = 50
     /\ Recorded("Algebra") = 4
     /\ RecordedCorrect("Algebra") = 1)
        => history_call.ret = <<"Algebra">>

-----------------------------------------------------------------------------
(* Claims about the HTTP routes, checked under RouteSpec *)

\* C8: end to end through the routes, a message request that carries a
\* session id issued by an earlier create-session response finds the session
\* and is processed (HTTP 200); for the message "Why does this work?" the
\* Tutor responds with points_awarded = 5 and the points summary returned
\* has current_points = 6.
C8_RouteEndToEnd ==
    (route_call.op = "send_message" /\ route_call.session_id \in issued) =>
        /\ route_call.status = 200
        /\ route_call.message =
               <<"W", "h", "y", " ", "d", "o", "e", "s", " ", "t", "h", "i",
                 "s", " ", "w", "o", "r", "k", "?">>
           => /\ route_call.agent_response.agent_type = TUTOR
              /\ route_call.agent_response.points_awarded = 5
              /\ route_call.points_summary.current_points = 6

-----------------------------------------------------------------------------
(* Claims about SessionService, checked under SessionSpec *)

\* What holds of the store right after a call: create_session returned a
\* session with current_points = 0 and is_active = true that the store now
\* holds under its id; a close_session that did not fail left its session in
\* the store with is_active = false.
AfterSessionCall ==
    /\ session_call.op = "create_session" =>
          /\ session_call.ret.current_points = 0
          /\ session_call.ret.is_active
          /\ SessionFound(sessions, session_call.session_id)
          /\ sessions[session_call.session_id] = session_call.ret
    /\ (session_call.op = "get_session_or_raise" /\ ~session_call.raised) =>
          /\ SessionFound(sessions, session_call.session_id)
          /\ session_call.ret = sessions[session_call.session_id]
    /\ (session_call.op = "close_session" /\ ~session_call.raised) =>
          /\ SessionFound(sessions, session_call.session_id)
          /\ ~sessions[session_call.session_id].is_active

\* What holds of a step: a stored session stays in the store, the same, until
\* it is deleted; only a call on its own id changes it.
StoredSessionStays ==
    \A id \in DOMAIN sessions :
        \/ /\ id \notin DOMAIN sessions'
           /\ session_call'.op \in {"delete_session",
                                    "cleanup_inactive_sessions"}
        \/ /\ id \in DOMAIN sessions'
           /\ sessions'[id] = sessions[id]
        \/ /\ id \in DOMAIN sessions'
           /\ session_call'.op \in {"update_session", "add_message",
                                    "close_session"}
           /\ session_call'.session_id = id

\* What holds of a step: get_session_or_raise, close_session and
\* delete_session fail exactly on an id that is not in the store, and a call
\* that fails leaves the store unchanged.
MissingIdFails ==
    /\ (session_call'.op # "none" /\ session_call'.raised) =>
           sessions' = sessions
    /\ (/\ session_call' # session_call
        /\ session_call'.op \in {"get_session_or_raise", "close_session",
                                 "delete_session"}) =>
           (session_call'.raised <=>
                session_call'.session_id \notin DOMAIN sessions)

\* C11: in one SessionService, after create_session returns session s,
\* get_session_or_raise(s.session_id) returns that session (created with
\* current_points = 0 and is_active = true) in every later state until it is
\* deleted; close_session sets is_active = false and keeps the session
\* retrievable; get_session_or_raise, close_session and delete_session on an
\* id not in the store fail with a SessionException and leave the store
\* unchanged.
C11_SessionKept ==
    /\ []AfterSessionCall
    /\ [][StoredSessionStays /\ MissingIdFails]_vars

\* The sessions whose last_activity is more than the timeout before now.
Stale(store, timeout_minutes, now) ==
    {id \in DOMAIN store : now - store[id].last_activity > timeout_minutes}

\* What holds of a cleanup_inactive_sessions step, if C12 is right: the
\* stale sessions, closed or active, are gone, the others are kept as they
\* were, and the number of deleted sessions is returned.
SweepDeletesStale ==
    (session_call'.op = "cleanup_inactive_sessions" /\ clock' = clock) =>
        LET stale == Stale(sessions, session_call'.timeout_minutes, clock)
        IN  /\ DOMAIN sessions' = DOMAIN sessions \ stale
            /\ \A id \in DOMAIN sessions' : sessions'[id] = sessions[id]
            /\ session_call'.ret = Cardinality(stale)

\* C12: cleanup_inactive_sessions(timeout_minutes) deletes every session
\* whose last_activity is more than timeout_minutes before the current time,
\* closed sessions as well as active ones, deletes no other session, and
\* returns the number of sessions it deleted.
C12_SweepDeletesEveryStale == [][SweepDeletesStale]_vars

\* What holds of a create_session step, if C13 is right: the id is new to
\* the store, and the store gains exactly that entry.
CreateAddsEntry ==
    (session_call'.op = "create_session" /\ creates_made' # creates_made) =>
        /\ session_call'.session_id \notin DOMAIN sessions
        /\ DOMAIN sessions' = DOMAIN sessions \cup {session_call'.session_id}
        /\ \A id \in DOMAIN sessions : sessions'[id] = sessions[id]

\* C13: session ids are unique: every create_session call adds one new entry
\* to the store and never replaces an existing session, also when two
\* profiles with the same name are submitted at the same clock reading; the
\* number of stored sessions is the number of create_session calls minus the
\* number of deletions.
C13_SessionIdsUnique ==
    /\ [](Cardinality(DOMAIN sessions) = creates_made - deletions_made)
    /\ [][CreateAddsEntry]_vars

-----------------------------------------------------------------------------
(* Claims about AgentRegistry, checked under RegistrySpec *)

\* What holds of a step: a call that fails changes none of the three tables;
\* register_agent fails exactly on a registered type, create_agent and
\* unregister_agent exactly on an unregistered one.
RegistryFailureIsClean ==
    /\ (registry_call'.op # "none" /\ registry_call'.raised) =>
           UNCHANGED <<agent_classes, agent_factories, instances>>
    /\ registry_call'.op = "register_agent" =>
           (registry_call'.raised <=>
                registry_call'.agent_type \in DOMAIN agent_classes)
    /\ registry_call'.op \in {"create_agent", "unregister_agent"} =>
           (registry_call'.raised <=>
                registry_call'.agent_type \notin DOMAIN agent_classes)

\* C14: register_agent(type, ...) fails with a RegistryException when the
\* type is already registered, and then the class table, the factory table
\* and the named instances are unchanged, so the earlier registration and its
\* factory stay in force; create_agent and unregister_agent on an
\* unregistered type fail likewise and change nothing.
C14_RegistryFailures == [][RegistryFailureIsClean]_vars

\* C14's case: a registration of a registered type with another class and a
\* custom factory has failed; the table still holds the first class and its
\* default factory, and a named instance is still there.
C14_Witness ==
    /\ registry_call.op = "register_agent"
    /\ registry_call.raised
    /\ registry_call.factory # NoFactory
    /\ agent_classes[registry_call.agent_type] # registry_call.agent_class
    /\ agent_factories[registry_call.agent_type].kind = "default"
    /\ instances # <<>>

\* What holds of an unregister_agent step that does not fail: the type is
\* gone from both tables, the other types keep their class and factory, the
\* named instances of that agent type are gone and all others are kept.
UnregisterCascades ==
    (registry_call'.op = "unregister_agent" /\ ~registry_call'.raised) =>
        LET type == registry_call'.agent_type
        IN  /\ DOMAIN agent_classes' = DOMAIN agent_classes \ {type}
            /\ DOMAIN agent_factories' = DOMAIN agent_factories \ {type}
            /\ \A t \in DOMAIN agent_classes' :
                  /\ agent_classes'[t] = agent_classes[t]
                  /\ agent_factories'[t] = agent_factories[t]
            /\ DOMAIN instances' =
                   {id \in DOMAIN instances : instances[id].agent_type # type}
            /\ \A id \in DOMAIN instances' : instances'[id] = instances[id]

\* C15: unregister_agent(type) on a registered type removes the type from the
\* registry and removes exactly the named instances whose agent type is that
\* type: get_agent finds nothing under their ids afterwards, and every named
\* instance of another type is still retrievable under its id, unchanged.
C15_UnregisterCascades == [][UnregisterCascades]_vars

\* C15's case: an unregister_agent call removed a named instance and left a
\* named instance of another type in place.
C15_Witness ==
    /\ registry_call.op = "unregister_agent"
    /\ ~registry_call.raised
    /\ registry_call.removed # {}
    /\ instances # <<>>

-----------------------------------------------------------------------------
(* Further claims about OrchestratorService, checked under OrchSpec *)

\* What holds of a process_user_input step: it fails exactly when the
\* selected type has no live instance; the failure is a ValueError, which the
\* message route answers with HTTP 500, not the 400 of an AgentException; the
\* counter has been incremented, last_agent_type and the agents, with their
\* conversation histories, are as before.
FailedTurn ==
    conversation_count' # conversation_count =>
        /\ orch_call'.op = "process_user_input"
        /\ conversation_count' = conversation_count + 1
        /\ orch_call'.count = conversation_count'
        /\ orch_call'.outcome \in {"ok", "ValueError"}
        /\ orch_call'.outcome = "ValueError"
               <=> orch_call'.selected \notin DOMAIN agents
        /\ orch_call'.outcome = "ValueError" =>
              /\ HttpStatus(orch_call'.outcome) = 500
              /\ HttpStatus(orch_call'.outcome) # HttpStatus("AgentException")
              /\ last_agent_type' = last_agent_type
              /\ agents' = agents

\* C17: if the agent type selected for a turn has no live instance in the
\* orchestrator, process_user_input fails with a generic error that is not an
\* AgentException (an internal error for the message route); the failing call
\* has incremented the turn counter, while last_agent_type and every agent's
\* conversation history are unchanged.
C17_AgentNotFound == [][FailedTurn]_vars

\* C17's case: on an orchestrator without a Teachable agent, a turn served by
\* another agent was followed by a turn that selected Teachable and failed.
C17_Witness ==
    /\ orch_call.op = "process_user_input"
    /\ orch_call.outcome = "ValueError"
    /\ orch_call.selected = TEACHABLE
    /\ conversation_count >= 2
    /\ last_agent_type \in DOMAIN agents
    /\ agents[last_agent_type].conversation_history # <<>>

-----------------------------------------------------------------------------
(* Further claims about the HTTP routes, checked under RouteSpec *)

\* What holds of two message requests of one session that follow each other,
\* if C18 is right: the second is routed with the counter of the first plus
\* one and sees the agent of the first as last_agent.
CounterCarriesOver ==
    (/\ route_call.op = "send_message"
     /\ route_call'.op = "send_message"
     /\ route_call'.session_id = route_call.session_id
     /\ route_call.session_id \in issued) =>
        /\ route_call.status = 200
        /\ route_call'.status = 200
        /\ route_call'.context.conversation_count =
               route_call.context.conversation_count + 1
        /\ route_call'.context.last_agent =
               route_call.agent_response.agent_type

\* C18: one orchestrator serves a session for its whole lifetime: across the
\* message requests of a session the turn counter and last_agent carry over,
\* so the k-th message is routed with counter value k and trigger-free
\* messages rotate through the four agent types.
C18_OneOrchestratorPerSession ==
    /\ [](route_call.op = "send_message" /\ route_call.session_id \in issued
            => /\ route_call.status = 200
               /\ route_call.context.conversation_count >= 1)
    /\ [][CounterCarriesOver]_vars

\* C19: the orchestrator the message route builds is initialized from a
\* registry with all four default agent types registered, so it holds a live
\* Tutor, Peer, Provocateur and Teachable, and no message request fails for a
\* missing agent once its session has been found.
C19_RouteRegistryHasDefaults ==
    route_call.op = "send_message" =>
        /\ route_call.registered = AgentType
        /\ route_call.status \in {200, 404}

\* C20: every message request processed for a session leaves its mark on the
\* session's record: last_activity is the time of the request, and
\* current_points and total_points are the points awarded and penalized so
\* far in the session.
C20_SessionRecordUpdated ==
    (route_call.op = "send_message" /\ route_call.session_id \in issued) =>
        /\ route_call.status = 200
        /\ route_call.session.last_activity = clock
        /\ route_call.session.current_points =
               route_call.points_summary.current_points
        /\ route_call.session.total_points =
               route_call.points_summary.total_points

-----------------------------------------------------------------------------
(* Claims about concurrent turns, checked under TaskSpec *)

\* The calls that have taken a counter value, and those that built a context.
RanTasks == {i \in DOMAIN tasks : tasks[i].pc # "pending"}
ServedTasks == {i \in DOMAIN tasks : tasks[i].pc \in {"suspended", "done"}}

\* No call is ever parked between lines 52 and 69, the counter is the number
\* of calls that ran, and the calls observed the counter values 1..n, each once.
OneAfterAnother ==
    /\ \A i \in DOMAIN tasks : tasks[i].pc # "suspended"
    /\ conversation_count = Cardinality(RanTasks)
    /\ \A i, j \in RanTasks : tasks[i].count = tasks[j].count => i = j
    /\ \A i \in RanTasks : tasks[i].count \in 1..Cardinality(RanTasks)
    /\ \A i \in ServedTasks :
           tasks[i].context.conversation_count = tasks[i].count

\* The agent type the call with counter value c selected.
SelectedAt(c) == tasks[CHOOSE j \in RanTasks : tasks[j].count = c].agent_type

\* The agent type of the latest call before counter value c that found its
\* agent, None when there is none.
RECURSIVE ServedBefore(_)
ServedBefore(c) ==
    IF c <= 1 THEN None
    ELSE IF \E j \in ServedTasks : tasks[j].count = c - 1
         THEN SelectedAt(c - 1)
         ELSE ServedBefore(c - 1)

\* C21 as stated: calls dispatched together run one after another, the counter
\* ends at the number of calls, each call sees its own counter value, and the
\* last_agent of each call's context is the agent type the call just before it
\* selected (None for the first call).
C21_LastAgentOfPrecedingCall ==
    /\ OneAfterAnother
    /\ \A i \in ServedTasks :
           tasks[i].context.last_agent =
               IF tasks[i].count = 1 THEN None
               ELSE SelectedAt(tasks[i].count - 1)

\* C21 amended: as above, but the last_agent of each call's context is the
\* agent type of the latest earlier call that found its agent (None when no
\* earlier call did): a call that raises agent-not-found records nothing.
C21_LastAgentOfPrecedingServedCall ==
    /\ OneAfterAnother
    /\ \A i \in ServedTasks :
           tasks[i].context.last_agent = ServedBefore(tasks[i].count)

\* Three calls were dispatched, the second ran before the first, and the
\* first found in its context the agent the second had selected.
C21_Witness ==
    /\ Len(tasks) = 3
    /\ RanTasks = 1..3
    /\ tasks[2].count = 1 /\ tasks[2].pc = "done"
    /\ tasks[1].count = 2 /\ tasks[1].pc = "done"
    /\ tasks[1].context.last_agent = tasks[2].agent_type
    /\ tasks[3].context.last_agent = tasks[1].agent_type
    /\ tasks[1].agent_type # tasks[2].agent_type

-----------------------------------------------------------------------------
(* Further claims about HistoryService, checked under HistorySpec *)

\* The points_earned of the first n interactions that have the topic, summed.
RECURSIVE PointsRecorded(_, _)
PointsRecorded(topic, n) ==
    IF n = 0 THEN 0
    ELSE PointsRecorded(topic, n - 1)
             + (IF interaction_history[n].topic = topic
                THEN interaction_history[n].points_earned ELSE 0)

\* C22: the statistics kept per topic equal a recomputation from the
\* interaction list: every topic with a record has one entry, whose
\* total_interactions is the number of records of the topic, correct_responses
\* the number of those with correct = True (False and None do not count),
\* total_points the sum of their points_earned and accuracy the value of
\* correct_responses / total_interactions * 100, which lies in [0, 100].
C22_StatisticsMatchRecomputation ==
    /\ {topic_performance[i].topic : i \in 1..Len(topic_performance)}
           = {interaction_history[i].topic : i \in 1..Len(interaction_history)}
    /\ \A i, j \in 1..Len(topic_performance) :
           topic_performance[i].topic = topic_performance[j].topic => i = j
    /\ \A i \in 1..Len(topic_performance) :
           LET p == topic_performance[i]
           IN  /\ p.total_interactions = Recorded(p.topic)
               /\ p.correct_responses = RecordedCorrect(p.topic)
               /\ p.total_points =
                      PointsRecorded(p.topic, Len(interaction_history))
               /\ p.accuracy =
                      Accuracy(RecordedCorrect(p.topic), Recorded(p.topic))
               /\ ~FloatLess(p.accuracy, FloatZero)
               /\ ~FloatLess(FloatOfNat(100), p.accuracy)

\* One topic has records with correct True, False and None, and another
\* topic has a record too.
C22_Witness ==
    /\ Len(topic_performance) = 2
    /\ \E i \in 1..2 :
           /\ topic_performance[i].total_interactions = 3
           /\ topic_performance[i].correct_responses = 1
           /\ \A c \in CorrectFlags :
                  \E k \in 1..Len(interaction_history) :
                      /\ interaction_history[k].topic = topic_performance[i].topic
                      /\ interaction_history[k].correct = c

\* C23: the cached weak and strong lists are recomputed only on demand:
\* add_interaction leaves both lists as they were; the lists change only in
\* identify_weak_areas, identify_strong_areas, get_recommendations (and are
\* emptied by reset); and get_summary reports the cached lists without
\* recomputing them, whatever topic_performance would classify now.
C23_CachedListsOnDemand ==
    [][/\ history_call'.op = "add_interaction" =>
              /\ weak_areas' = weak_areas
              /\ strong_areas' = strong_areas
       /\ history_call'.op = "get_summary" =>
              /\ history_call'.ret.weak_areas = weak_areas
              /\ history_call'.ret.strong_areas = strong_areas
              /\ weak_areas' = weak_areas
              /\ strong_areas' = strong_areas
       /\ weak_areas' # weak_areas =>
              \/ history_call'.op \in {"identify_weak_areas",
                                       "get_recommendations"}
              \/ history_call'.op = "reset" /\ weak_areas' = <<>>
       /\ strong_areas' # strong_areas =>
              \/ history_call'.op \in {"identify_strong_areas",
                                       "get_recommendations"}
              \/ history_call'.op = "reset" /\ strong_areas' = <<>>]_vars

\* get_summary reported a weak list that the statistics of the moment do not
\* give at either threshold: a topic listed as weak, found at threshold 25,
\* has since moved to an accuracy of 50 or more.
C23_Witness ==
    /\ history_call.op = "get_summary"
    /\ history_call.ret.weak_areas # <<>>
    /\ \A th \in WeakThresholds :
           history_call.ret.weak_areas # WeakTopics(topic_performance, th)

-----------------------------------------------------------------------------
(* Claims about the agent classes, checked under AgentSpec *)

\* The instance is of the given type and has just answered a message.
Answered(agent_type) ==
    /\ the_agent.agent_type = agent_type
    /\ agent_call.op = "process_input"

\* The gain the claim gives for a message of the given length.
GainFor(length) == IF length > 100 THEN 10 ELSE IF length > 50 THEN 5 ELSE 2

\* C24: the Teachable agent's understanding_level stays within [0, 100] and
\* never decreases; a turn adds 10 for a message longer than 100 characters,
\* 5 for one longer than 50 and 2 otherwise, saturating at 100; and the
\* response awards 15 + gain, one of 17, 20 and 25, also at level 100.
C24_TeachableUnderstanding ==
    the_agent.agent_type = TEACHABLE =>
        /\ the_agent.understanding_level \in 0..100
        /\ Answered(TEACHABLE) =>
               LET gain == GainFor(Len(agent_call.user_input))
                   before == agent_call.pre.understanding_level
               IN  /\ the_agent.understanding_level >= before
                   /\ the_agent.understanding_level =
                          IF before + gain > 100 THEN 100 ELSE before + gain
                   /\ agent_call.response.points_awarded = 15 + gain
                   /\ agent_call.response.points_awarded \in {17, 20, 25}

\* A turn at understanding_level 100 with a message of 101 characters: the
\* level stays 100 and 25 points are awarded.
C24_Witness ==
    /\ Answered(TEACHABLE)
    /\ agent_call.pre.understanding_level = 100
    /\ Len(agent_call.user_input) = 101
    /\ the_agent.understanding_level = 100
    /\ agent_call.response.points_awarded = 25

\* C25: every turn of a Provocateur instance returns points_awarded = 0 and
\* the challenge id challenge_k, k being the number of challenges the instance
\* had created before the turn: the first turn gives challenge_0 and the n-th
\* turn challenge_(n-1), so the ids of one instance are distinct and
\* sequential; and the message route's award step appends no entry to the
\* ledger for such a response and reports 0 points earned.
C25_ProvocateurNoPoints ==
    /\ [](the_agent.agent_type = PROVOCATEUR =>
            /\ the_agent.challenges_created
                   = Len(the_agent.conversation_history) \div 2
            /\ Answered(PROVOCATEUR) =>
                   /\ agent_call.response.points_awarded = 0
                   /\ agent_call.response.challenge
                          = agent_call.pre.challenges_created
                   /\ the_agent.challenges_created
                          = agent_call.pre.challenges_created + 1
            /\ points_history = <<>>)
    /\ [][(the_agent.agent_type = PROVOCATEUR /\ agent_call'.op = "award") =>
              /\ points_history' = points_history
              /\ agent_call'.points_earned = 0]_vars

\* The route's award step has handled the response of a Provocateur's third
\* turn, which carried challenge_2, and the ledger has no entry.
C25_Witness ==
    /\ the_agent.agent_type = PROVOCATEUR
    /\ agent_call.op = "award"
    /\ agent_call.response.challenge = 2
    /\ agent_call.points_earned = 0
    /\ the_agent.challenges_created = 3
    /\ points_history = <<>>

\* C28: the Teachable agent answers with the top-tier text ("Wow! ...") when
\* the message is longer than 100 characters and with the lowest-tier text
\* ("I'm learning, but could you provide more details?") otherwise; the middle
\* tier ("Thanks for explaining that...") is never produced, because the gain
\* is 2, 5 or 10 and the middle tier needs a gain above 5 and at most 8.
C28_TeachableReplyTiers ==
    Answered(TEACHABLE) =>
        /\ agent_call.response.message =
               IF Len(agent_call.user_input) > 100
               THEN "wow" ELSE "could_you_provide_more_details"
        /\ agent_call.response.message # "thanks_for_explaining"
        /\ agent_call.response.points_awarded - 15 \in {2, 5, 10}

\* A message of 51 characters earned the gain 5 and the lowest-tier reply.
C28_Witness ==
    /\ Answered(TEACHABLE)
    /\ Len(agent_call.user_input) = 51
    /\ agent_call.response.points_awarded = 20
    /\ agent_call.response.message = "could_you_provide_more_details"

-----------------------------------------------------------------------------
(* Further claims about PointsService, checked under PointsSpec *)

\* The award entries of a ledger are those that carry points_earned, the
\* penalty entries those that carry points_deducted.
RECURSIVE SumEarned(_)
SumEarned(ledger) ==
    IF ledger = <<>> THEN 0
    ELSE (IF "points_earned" \in DOMAIN Head(ledger)
          THEN Head(ledger).points_earned ELSE 0) + SumEarned(Tail(ledger))

RECURSIVE SumDeducted(_)
SumDeducted(ledger) ==
    IF ledger = <<>> THEN 0
    ELSE (IF "points_deducted" \in DOMAIN Head(ledger)
          THEN Head(ledger).points_deducted ELSE 0) + SumDeducted(Tail(ledger))

\* C26: from a fresh PointsService, under award_points, penalize_points,
\* use_hint and reset: total_points is the sum of points_earned over the award
\* entries of the ledger and current_points is total_points minus the sum of
\* points_deducted over its penalty entries; each award, penalize and use_hint
\* call appends exactly one entry (of its kind) at the end and alters no
\* earlier entry; reset leaves both balances 0 and the ledger empty.
C26_LedgerConsistent ==
    /\ [](/\ total_points = SumEarned(points_history)
          /\ current_points = total_points - SumDeducted(points_history))
    /\ [][/\ points_call'.op \in {"award_points", "penalize_points",
                                  "use_hint"} =>
                 /\ Len(points_history') = Len(points_history) + 1
                 /\ SubSeq(points_history', 1, Len(points_history))
                        = points_history
                 /\ LET entry == points_history'[Len(points_history')]
                    IN  IF points_call'.op = "award_points"
                        THEN /\ "points_earned" \in DOMAIN entry
                             /\ "points_deducted" \notin DOMAIN entry
                        ELSE /\ "points_deducted" \in DOMAIN entry
                             /\ "points_earned" \notin DOMAIN entry
          /\ points_call'.op = "reset" =>
                 /\ current_points' = 0
                 /\ total_points' = 0
                 /\ points_history' = <<>>]_vars

\* A ledger with an award and two penalties, the last of them a hint that
\* took less than was left by the award.
C26_Witness ==
    /\ points_call.op = "use_hint"
    /\ Len(points_history) = 3
    /\ SumEarned(points_history) > 0
    /\ SumDeducted(points_history) > 0
    /\ "points_deducted" \in DOMAIN points_history[2]
    /\ 0 < current_points /\ current_points < total_points

-----------------------------------------------------------------------------
(* Further claims about routing, checked under OrchSpec *)

\* The Teachable triggers without "explain to".
TeachAndHelpMe ==
    <<<<"t", "e", "a", "c", "h">>, <<"h", "e", "l", "p", " ", "m", "e">>>>

\* The routing policy with the Teachable triggers reduced to "teach" and
\* "help me".
SelectedWithoutExplainTo(user_input, count) ==
    LET user_input_lower == lower(user_input)
    IN  IF AnyWordIn(TutorWords, user_input_lower) THEN TUTOR
        ELSE IF AnyWordIn(ProvocateurWords, user_input_lower) THEN PROVOCATEUR
        ELSE IF AnyWordIn(TeachAndHelpMe, user_input_lower) THEN TEACHABLE
        ELSE RoundRobin(count)

\* The selections of the reduced policy for the messages and counter values
\* of the model, computed once.
ReducedMemo ==
    [x \in UserInputs \X (1..(MaxTurns + 1)) |->
        SelectedWithoutExplainTo(x[1], x[2])] @@ <<>>

\* C27: the Teachable trigger "explain to" never decides the routing: for
\* every message and counter value, the agent process_user_input selects is
\* the one selected by the same policy without that trigger.
C27_ExplainToNeverDecides ==
    orch_call.op = "process_user_input" =>
        orch_call.selected = ReducedMemo[<<orch_call.user_input, orch_call.count>>]

\* A message containing "explain to" was routed, and went to the Tutor at a
\* counter value whose round-robin turn is another agent's.
C27_Witness ==
    /\ orch_call.op = "process_user_input"
    /\ Contains(lower(orch_call.user_input),
                <<"e", "x", "p", "l", "a", "i", "n", " ", "t", "o">>)
    /\ orch_call.selected = TUTOR
    /\ RoundRobin(orch_call.count) = TEACHABLE

\* The lengths of the conversation histories of the given agent types, summed.
RECURSIVE HistoryLengths(_)
HistoryLengths(types) ==
    IF types = {} THEN 0
    ELSE LET t == CHOOSE x \in types : TRUE
         IN  Len(agents[t].conversation_history) + HistoryLengths(types \ {t})

SuccessfulTurns == {k \in 1..Len(turn_log) : turn_log[k].ok}

\* C29: a successful process_user_input turn appends exactly two entries, user
\* then assistant, to the history of the agent it selected and nothing to any
\* other agent's; so every agent's history has even length with the roles
\* alternating from user, and the lengths of all histories add up to twice the
\* number of successful turns.
C29_TwoEntriesPerTurn ==
    /\ [](/\ \A t \in DOMAIN agents :
                LET h == agents[t].conversation_history
                IN  /\ Len(h) % 2 = 0
                    /\ \A k \in 1..Len(h) :
                           h[k] = IF k % 2 = 1 THEN "user" ELSE "assistant"
          /\ HistoryLengths(DOMAIN agents) = 2 * Cardinality(SuccessfulTurns))
    /\ [][(conversation_count' # conversation_count
              /\ orch_call'.outcome = "ok") =>
             \A t \in DOMAIN agents :
                 agents'[t].conversation_history =
                     IF t = orch_call'.selected
                     THEN agents[t].conversation_history
                              \o <<"user", "assistant">>
                     ELSE agents[t].conversation_history]_vars

\* Successful turns went to two different agents, one of them twice, and one
\* turn failed for want of its agent.
C29_Witness ==
    /\ \E t1, t2 \in DOMAIN agents :
           /\ t1 # t2
           /\ Len(agents[t1].conversation_history) = 4
           /\ Len(agents[t2].conversation_history) = 2
    /\ \E k \in 1..Len(turn_log) : ~turn_log[k].ok
    /\ orch_call.op = "process_user_input" /\ orch_call.outcome = "ok"

-----------------------------------------------------------------------------
(* Further claims about AgentRegistry, checked under DefaultRegistrySpec *)

\* C30: in every state of an AgentRegistry reached by register_agent,
\* unregister_agent, create_agent and clear_instances with default factories
\* only, the class table and the factory table have the same keys, and every
\* named instance has an agent type that is registered at that moment.
C30_TablesAndInstancesAgree ==
    /\ DOMAIN agent_classes = DOMAIN agent_factories
    /\ \A i \in DOMAIN instances :
           instances[i].agent_type \in DOMAIN agent_classes

\* An unregistration has removed the instances of its type and left a named
\* instance of the other type, whose class is not the default class of the
\* type it was registered and created under.
C30_Witness ==
    /\ registry_call.op = "unregister_agent"
    /\ ~registry_call.raised
    /\ registry_call.removed # {}
    /\ \E i \in DOMAIN instances :
           /\ instances[i].class = "VirtualPeerAgent"
           /\ instances[i].agent_type = TUTOR
    /\ PEER \notin DOMAIN agent_classes

=============================================================================
